---- MODULE Spec2Model ----
(***************************************************************************)
(* A model of the pragmastat Python port (src/py/pragmastat): the          *)
(* assumption pipeline of the public estimators, the combinatorial margin  *)
(* functions and the bounds built on them.                                 *)
(*                                                                         *)
(* Numbers. Sample values are integers (or the non-finite marker NaN). A   *)
(* misrate is a multiple of 1/MisDen with MisDen a power of two, or the    *)
(* least positive float. Every float is the exact rational it stands for,  *)
(* a fraction in lowest terms, and log-space floats are the rationals they *)
(* are logarithms of, with no underflow in log space. The least positive   *)
(* float is 2^-TinyBits (2^-1074 in the program): misrate / 2.0 and 2.0 ** *)
(* (1 - n) round to its multiples, which leaves them exact on the misrates *)
(* of the grid. A float has MantBits bits of mantissa (53 in the program): *)
(* the subtraction of _count_pairs_less_or_equal rounds to them, and the   *)
(* other operations are exact on the inputs the model draws. math.comb is  *)
(* a Python int of any size where its conversion to a float can overflow.  *)
(*                                                                         *)
(* Evaluation.  The({e(x) : x \in {v}}) is used where the code assigns v   *)
(* to a local x and reads it more than once: v is worked out once.         *)
(***************************************************************************)
EXTENDS Integers, Sequences, FiniteSets, TLC

\* pc: "idle" between calls, "returned" when the call op(args) has ended with
\* res (a value, an interval or an exception), "running" while a call that is
\* followed step by step is in a loop, its locals in res.
\* arrays, samples: the numpy arrays and the Sample objects that exist, in the
\* order they were made.
\* registry: the _by_id of the UnitRegistry the caller holds, a unit for each
\* id that is registered.
VARIABLES pc, op, args, res, arrays, samples, registry

vars == <<pc, op, args, res, arrays, samples, registry>>

\* ---------------------------------------------------------------- bounds
MaxLen == 2
MaxVal == 1
MisBits == 2
EpsBits == 3
MantBits == 8
TinyBits == 9
MaxSeed == 3

MisDen == 2 ^ MisBits

\* ------------------------------------------------------------- arithmetic
\* The element of a one-element set.  The({e(x) : x \in {v}}) is e(v) with v
\* worked out once, however often e reads x.
The(S) == CHOOSE r \in S : TRUE

Abs(a) == IF a < 0 THEN 0 - a ELSE a

Min2(a, b) == IF a <= b THEN a ELSE b

Max2(a, b) == IF a >= b THEN a ELSE b

RECURSIVE Gcd(_, _)
Gcd(a, b) == The({IF y = 0 THEN x ELSE Gcd(y, x % y) : x \in {a}, y \in {b}})

\* A real result: the fraction n/d in lowest terms, d > 0.
Rat(n, d) ==
    The({[n |-> ((IF y < 0 THEN 0 - 1 ELSE 1) * x) \div g, d |-> Abs(y) \div g] :
            <<x, y, g>> \in {<<n, d, Gcd(Abs(n), Abs(d))>>}})

RInt(v) == [n |-> v, d |-> 1]

\* The two infinities of math.inf: d = 0.
PosInf == [n |-> 1, d |-> 0]
NegInf == [n |-> 0 - 1, d |-> 0]

RLe(a, b) ==
    \E x \in {a}, y \in {b} :
        IF x.d = 0 /\ y.d = 0 THEN x.n <= y.n ELSE x.n * y.d <= y.n * x.d

RLt(a, b) == ~ RLe(b, a)

RAdd(a, b) == The({Rat(x.n * y.d + y.n * x.d, x.d * y.d) : x \in {a}, y \in {b}})

RMul(a, b) == The({Rat(x.n * y.n, x.d * y.d) : x \in {a}, y \in {b}})

RSub(a, b) == The({Rat(x.n * y.d - y.n * x.d, x.d * y.d) : x \in {a}, y \in {b}})

RAbs(a) == The({[n |-> Abs(x.n), d |-> x.d] : x \in {a}})

\* a / b for b > 0.
RDiv(a, b) == The({Rat(x.n * y.d, x.d * y.n) : x \in {a}, y \in {b}})

RMin(a, b) == The({IF RLe(x, y) THEN x ELSE y : x \in {a}, y \in {b}})

RMax(a, b) == The({IF RLe(x, y) THEN y ELSE x : x \in {a}, y \in {b}})

\* math.comb(n, k)
RECURSIVE Comb(_, _)
Comb(n, k) ==
    IF k < 0 \/ k > n THEN 0
    ELSE IF k = 0 THEN 1
    ELSE (Comb(n - 1, k - 1) * n) \div k

\* ---------------------------------------------------------------- values
\* A float of a sample: a finite integer or a non-finite value (NaN stands
\* for NaN, +Inf and -Inf, which numpy.isfinite treats alike).
Fin(v) == [t |-> "fin", v |-> v]
NaN == [t |-> "nan", v |-> 0]

Values == {NaN} \cup {Fin(v) : v \in 0..MaxVal}

SeqsUpTo(S, k) == UNION {[1..j -> S] : j \in 0..k}

Samples == SeqsUpTo(Values, MaxLen)

\* A misrate: a fraction k/MisDen, or not a number.
MisNaN == [t |-> "nan", v |-> RInt(0)]
Mis(k) == [t |-> "fin", v |-> Rat(k, MisDen)]
Misrates == {MisNaN} \cup {Mis(k) : k \in (0 - 1)..(MisDen + 1)}

\* ------------------------------------------------------------ assumptions
Kinds == <<"validity", "domain", "positivity", "sparity">>

Priority(kind) == CHOOSE i \in 1..Len(Kinds) : Kinds[i] = kind

NoCalls == <<>>

Raise(kind, subject) ==
    [status |-> "error", kind |-> kind, subject |-> subject, calls |-> NoCalls]

Passed == [status |-> "pass", kind |-> "none", subject |-> "none", calls |-> NoCalls]

IsError(r) == r.status = "error"

\* calls: the kernels and margin functions a call has run, in order, when it
\* returns or raises.
After(calls, r) == The({[x EXCEPT !.calls = calls \o x.calls] : x \in {r}})

IsFinite(e) == e.t # "nan"

check_validity(values, subject) ==
    IF Len(values) = 0 THEN Raise("validity", subject)
    ELSE IF ~ (\A i \in DOMAIN values : IsFinite(values[i]))
         THEN Raise("validity", subject)
         ELSE Passed

\* values <= 0 of numpy: False on NaN.
LeZero(e) == e.t = "fin" /\ e.v <= 0

check_positivity(values, subject) ==
    IF \E i \in DOMAIN values : LeZero(values[i])
    THEN Raise("positivity", subject)
    ELSE Passed

\* math.isnan(misrate) or misrate < 0 or misrate > 1
MisrateOutOfRange(mr) == mr.t = "nan" \/ RLt(mr.v, RInt(0)) \/ RLt(RInt(1), mr.v)

\* ---------------------------------------------------------------- kernels
\* The finite values of a valid sample, as integers.
Nums(values) == The({[i \in DOMAIN s |-> s[i].v] \o <<>> : s \in {values}})

\* A family of integers is a function s on a finite set of indices: a list,
\* or the values formed of the pairs of a list.
CountLt(s, v) == Cardinality({i \in DOMAIN s : s[i] < v})

CountLe(s, v) == Cardinality({i \in DOMAIN s : s[i] <= v})

\* sorted(s)[k - 1]: the k-th smallest entry of s, 1 <= k <= the size of s.
OrderStat(s, k) ==
    CHOOSE v \in {s[i] : i \in DOMAIN s} : CountLt(s, v) < k /\ k <= CountLe(s, v)

\* The median of a non-empty family of integers.
Median(s) ==
    The({IF n % 2 = 1 THEN RInt(OrderStat(s, (n + 1) \div 2))
         ELSE Rat(OrderStat(s, n \div 2) + OrderStat(s, n \div 2 + 1), 2) :
            n \in {Cardinality(DOMAIN s)}})

\* ------------------------------------------------------------ min_misrate
Value(v, calls) == [status |-> "value", value |-> v, calls |-> calls]

\* misrate < r
MisLt(mr, r) == RLt(mr.v, r)

\* 2.0 ** (1 - n), or domain(x) when n <= 0.
min_achievable_misrate_one_sample(n) ==
    IF n <= 0 THEN Raise("domain", "x")
    ELSE IF n - 1 > TinyBits THEN Value(RInt(0), NoCalls)
    ELSE Value(Rat(2, 2 ^ n), NoCalls)

\* An exception that is no AssumptionError.
Crash(what) == [status |-> "crash", kind |-> what, subject |-> "none", calls |-> NoCalls]

\* A Python int of any size: its digits in base 2^16, the lowest first, the
\* highest not 0.
LimbBits == 16
LimbBase == 2 ^ LimbBits

\* The digits lo..hi of a * k for an int a and a small factor k, with the
\* carry c into digit lo, and the carry out of digit hi.
RECURSIVE IntTimesDigits(_, _, _, _, _)
IntTimesDigits(a, k, lo, hi, c) ==
    IF lo = hi
    THEN The({[digits |-> <<t % LimbBase>>, carry |-> t \div LimbBase] : t \in {a[lo] * k + c}})
    ELSE The({The({[digits |-> low.digits \o high.digits, carry |-> high.carry] :
                     high \in {IntTimesDigits(a, k, mid + 1, hi, low.carry)}}) :
                <<mid, low>> \in {The({<<h, IntTimesDigits(a, k, lo, h, c)>> :
                                          h \in {(lo + hi) \div 2}})}})

IntTimes(a, k) ==
    The({IF r.carry = 0 THEN r.digits ELSE r.digits \o <<r.carry>> :
            r \in {IntTimesDigits(a, k, 1, Len(a), 0)}})

\* The digits lo..hi of a // k for an int a and a small divisor k, with the
\* remainder r of the digits above hi, and the remainder left below lo.
RECURSIVE IntDivDigits(_, _, _, _, _)
IntDivDigits(a, k, lo, hi, r) ==
    IF lo = hi
    THEN The({[digits |-> <<t \div k>>, rem |-> t % k] : t \in {r * LimbBase + a[lo]}})
    ELSE The({The({[digits |-> low.digits \o high.digits, rem |-> low.rem] :
                     low \in {IntDivDigits(a, k, lo, mid, high.rem)}}) :
                <<mid, high>> \in {The({<<h, IntDivDigits(a, k, h + 1, hi, r)>> :
                                           h \in {(lo + hi) \div 2}})}})

Trim(a) == IF Len(a) > 1 /\ a[Len(a)] = 0 THEN SubSeq(a, 1, Len(a) - 1) ELSE a

IntDiv(a, k) == Trim(IntDivDigits(a, k, 1, Len(a), 0).digits)

\* math.comb(n, k) as a Python int: c = c * (n - k + i) // i for i = lo..hi,
\* the first half of the steps and then the second.
RECURSIVE IntCombSteps(_, _, _, _, _)
IntCombSteps(c, n, k, lo, hi) ==
    IF lo > hi THEN c
    ELSE IF lo = hi THEN IntDiv(IntTimes(c, n - k + lo), lo)
    ELSE The({The({IntCombSteps(c2, n, k, mid + 1, hi) :
                     c2 \in {IntCombSteps(c, n, k, lo, mid)}}) :
                mid \in {(lo + hi) \div 2}})

IntComb(n, k) ==
    The({IntCombSteps(<<1>>, n, j, 1, j) : j \in {IF k < n - k THEN k ELSE n - k}})

\* The floats of Python: 53 bits of mantissa, and no finite float of 2^1024
\* or more.
FloatMaxExp == 1024
FloatMantBits == 53

\* float(a) raises OverflowError: the int a rounds to 2^FloatMaxExp or more,
\* which is when its FloatMantBits + 1 highest bits below 2^FloatMaxExp are
\* all 1, or it has a bit above them.
IntToFloatOverflows(a) ==
    \E top \in {FloatMaxExp \div LimbBits}, ones \in {(FloatMantBits + 1) \div LimbBits},
       rest \in {(FloatMantBits + 1) % LimbBits} :
        \/ Len(a) > top
        \/ /\ Len(a) = top
           /\ \A i \in (top - ones + 1)..top : a[i] = LimbBase - 1
           /\ a[top - ones] \div (2 ^ (LimbBits - rest)) = 2 ^ rest - 1

\* 2.0 / math.comb(n, k) raises OverflowError.  math.comb(n, k) < 2^n, so
\* the int is worked out for n >= FloatMaxExp only.
CombToFloatOverflows(n, k) == n >= FloatMaxExp /\ IntToFloatOverflows(IntComb(n, k))

\* 2.0 / math.comb(n + m, n), or domain(x), domain(y); the division raises
\* OverflowError when the int is too large for a float.
min_achievable_misrate_two_sample(n, m) ==
    IF n <= 0 THEN Raise("domain", "x")
    ELSE IF m <= 0 THEN Raise("domain", "y")
    ELSE IF CombToFloatOverflows(n + m, n) THEN Crash("OverflowError")
    ELSE Value(Rat(2, Comb(n + m, n)), NoCalls)

\* ----------------------------------------------------- signed_rank_margin
SIGNED_RANK_MAX_EXACT_SIZE == 63

\* for w in range(i, max_wi + 1): count[w] = count[w] + count[w - i]
\* (from low w to high)
RECURSIVE CountInner_ascending(_, _, _)
CountInner_ascending(count, i, w) ==
    IF w < i THEN count
    ELSE The({[c EXCEPT ![w] = c[w] + c[w - i]] :
                 c \in {CountInner_ascending(count, i, w - 1)}})

\* for w in range(max_wi, i - 1, -1): count[w] = count[w] + count[w - i]
RECURSIVE CountInner(_, _, _)
CountInner(count, i, w) ==
    IF w < i THEN count
    ELSE The({CountInner(c, i, w - 1) :
                 c \in {[count EXCEPT ![w] = count[w] + count[w - i]]}})

\* for i in range(1, n + 1): max_wi = min(i * (i + 1) // 2, max_w); ...
RECURSIVE CountOuter(_, _, _, _)
CountOuter(count, i, n, max_w) ==
    IF i > n THEN count
    ELSE The({CountOuter(c, i + 1, n, max_w) :
                 c \in {CountInner(count, i, Min2((i * (i + 1)) \div 2, max_w))}})

\* count[w] after the dynamic-programming loops, w in 0..max_w.
SignedRankCounts(n) ==
    The({CountOuter(count0, 1, n, (n * (n + 1)) \div 2) :
            count0 \in {[w \in 0..((n * (n + 1)) \div 2) |-> IF w = 0 THEN 1 ELSE 0]}})

\* The values of cdf the scan sees: float(cumulative) / float(total).
RECURSIVE Cumulative(_, _)
Cumulative(count, w) == IF w = 0 THEN count[0] ELSE Cumulative(count, w - 1) + count[w]

SignedRankCdf(n) ==
    The({[w \in 0..((n * (n + 1)) \div 2) |-> Rat(Cumulative(count, w), 2 ^ n)] :
            count \in {SignedRankCounts(n)}})

\* The scan that stops at cdf > p.
RECURSIVE ScanCdf_strict(_, _, _, _)
ScanCdf_strict(cdf, p, w, max_w) ==
    IF w > max_w THEN max_w
    ELSE IF RLt(p, cdf[w]) THEN w
    ELSE ScanCdf_strict(cdf, p, w + 1, max_w)

\* for w in range(max_w + 1): ... if cdf >= p: return w;  return max_w
RECURSIVE ScanCdf(_, _, _, _)
ScanCdf(cdf, p, w, max_w) ==
    IF w > max_w THEN max_w
    ELSE IF RLe(p, cdf[w]) THEN w
    ELSE ScanCdf(cdf, p, w + 1, max_w)

signed_rank_margin_exact_raw(n, p) ==
    The({ScanCdf(cdf, p, 0, (n * (n + 1)) \div 2) : cdf \in {SignedRankCdf(n)}})

\* The other tail: 1 - misrate.
HalfMis_complement(mr) == RSub(RInt(1), mr.v)

\* q / 2.0: half of q, rounded to the nearest multiple of the least positive
\* float, to the even one of two that are as near.
FloatHalf(q) ==
    The({IF x.d = 1 THEN Rat(x.n, 2 ^ TinyBits)
         ELSE The({IF 2 * (x.n - f * x.d) < x.d THEN Rat(f, 2 ^ TinyBits)
                   ELSE IF 2 * (x.n - f * x.d) > x.d THEN Rat(f + 1, 2 ^ TinyBits)
                   ELSE IF f % 2 = 0 THEN Rat(f, 2 ^ TinyBits)
                   ELSE Rat(f + 1, 2 ^ TinyBits) : f \in {x.n \div x.d}}) :
            x \in {RMul(q, Rat(2 ^ TinyBits, 2))}})

\* misrate / 2.0
HalfMis(mr) == FloatHalf(mr.v)

signed_rank_margin_exact(n, mr) ==
    The({signed_rank_margin_exact_raw(n, p) * 2 : p \in {HalfMis(mr)}})

\* c = a: the lower end for the middle.
SearchMid_low(a, b) == a

\* c = (a + b) // 2
SearchMid(a, b) == (a + b) \div 2

\* while a < b - 1: c = (a + b) // 2; if cdf(c) < misrate: a = c else: b = c
RECURSIVE ApproxLoop(_, _, _, _)
ApproxLoop(cdf, p, a, b) ==
    IF ~ (a < b - 1) THEN <<a, b>>
    ELSE The({IF RLt(cdf[c], p) THEN ApproxLoop(cdf, p, c, y) ELSE ApproxLoop(cdf, p, x, c) :
                 <<x, y, c>> \in {<<a, b, SearchMid(a, b)>>}})

\* The binary search of _signed_rank_margin_approx_raw over the values cdf[w]
\* that _signed_rank_edgeworth_cdf(n, w) returns.
signed_rank_margin_approx_raw(cdf, max_w, p) ==
    The({IF RLt(cdf[ab[2]], p) THEN ab[2] ELSE ab[1] : ab \in {ApproxLoop(cdf, p, 0, max_w)}})

\* edgeworth: the values _signed_rank_edgeworth_cdf(n, w) takes, read only on
\* the n > SIGNED_RANK_MAX_EXACT_SIZE path.
signed_rank_margin(n, mr, edgeworth) ==
    IF n <= 0 THEN Raise("domain", "x")
    ELSE IF MisrateOutOfRange(mr) THEN Raise("domain", "misrate")
    ELSE LET min_misrate == min_achievable_misrate_one_sample(n)
         IN  IF IsError(min_misrate) THEN min_misrate
             ELSE IF MisLt(mr, min_misrate.value) THEN Raise("domain", "misrate")
             ELSE IF n <= SIGNED_RANK_MAX_EXACT_SIZE
                  THEN Value(signed_rank_margin_exact(n, mr), NoCalls)
                  ELSE Value(signed_rank_margin_approx_raw(
                                 edgeworth, (n * (n + 1)) \div 2, HalfMis(mr)) * 2,
                             NoCalls)

NoEdgeworth == <<>>

\* -------------------------------------------------------------------- Rng
\* The generator of rng.py: a seed fixes the whole stream.  The stream is a
\* linear congruential sequence over 0..RngM-1 of full period.
RngM == 8
RngA == 5
RngC == 3

NoSeed == 0 - 1

RngNew(seed) == [s |-> seed % RngM, draws |-> 0]

RngNext(rng) == The({[s |-> (RngA * r.s + RngC) % RngM, draws |-> r.draws + 1] : r \in {rng}})

\* rng.uniform(): a float in [0, 1) and the generator after the draw.
RngUniform(rng) == The({[value |-> Rat(r.s, RngM), rng |-> r] : r \in {RngNext(rng)}})

\* rng.uniform_int(lo, hi): an integer in lo..hi.
RngUniformInt(rng, lo, hi) ==
    The({[value |-> lo + (r.s % (hi - lo + 1)), rng |-> r] : r \in {RngNext(rng)}})

Swap(s, i, j) == The({[t EXCEPT ![i] = t[j], ![j] = t[i]] : t \in {s}})

\* Fisher-Yates over positions i = n down to 2 (1-based).
RECURSIVE ShuffleLoop(_, _, _)
ShuffleLoop(rng, s, i) ==
    IF i < 2 THEN [value |-> s, rng |-> rng]
    ELSE The({ShuffleLoop(d.rng, Swap(s, i, d.value), i - 1) :
                 d \in {RngUniformInt(rng, 1, i)}})

\* rng.shuffle(seq): a new list, the argument is not changed.
RngShuffle(rng, s) == ShuffleLoop(rng, s, Len(s))

\* ------------------------------------------------------------ sign_margin
\* The log-space floats of sign_margin.py are modelled by the reals they are
\* logarithms of: log_pmf by the pmf, log_cdf by the cdf, -inf by 0.  The
\* logarithms and exponentials round.  On the inputs of the model the exact
\* values are far apart or equal, so the rounding shows only where two of
\* them are equal: a call's rounding e says to which side of its exact value
\* the call's log(target), and with it p, comes out (-1 below, 0 exact, 1
\* above).
Roundings == {0 - 1, 0, 1}

Rat0 == RInt(0)

\* A float next to the real q, on the side s of it.
Near(q, s) == [q |-> q, side |-> s]

\* a > log_target, for an exact log-space float a
AboveTarget(a, target, e) == RLt(target, a) \/ (a = target /\ e < 0)

\* log_target > a
BelowTarget(a, target, e) == RLt(a, target) \/ (a = target /\ e > 0)

\* for k in range(1, n + 1): ...
RECURSIVE BinomLoop(_, _, _, _, _, _, _)
BinomLoop(n, target, e, k, r_low, pmf, cdf) ==
    IF k > n THEN <<r_low, cdf, Rat0>>
    ELSE The({IF AboveTarget(cdf_next, target, e) THEN <<r_low, cdf, pmf_next>>
              ELSE BinomLoop(n, target, e, k + 1, k, pmf_next, cdf_next) :
                 <<pmf_next, cdf_next>> \in
                     {The({<<q, RAdd(cdf, q)>> : q \in {RMul(pmf, Rat(n - k + 1, k))}})}})

\* (r_low, cdf(r_low), pmf(r_low + 1))
binom_cdf_split(n, target, e) ==
    The({IF AboveTarget(pmf, target, e) THEN <<0, pmf, pmf>>
         ELSE BinomLoop(n, target, e, 1, 0, pmf, pmf) : pmf \in {Rat(1, 2 ^ n)}})

\* max(0.0, min(1.0, p))
ClampUnit(p) ==
    The({IF RLt(RInt(1), x.q) \/ (x.q = RInt(1) /\ x.side > 0) THEN Near(RInt(1), 0)
         ELSE IF RLt(x.q, Rat0) \/ (x.q = Rat0 /\ x.side < 0) THEN Near(Rat0, 0)
         ELSE x : x \in {p}})

\* sign_margin_randomized with the chance of the lower margin for p.
SignMarginP_complement(n, target, e) ==
    The({LET cdf_low == split[2]
             pmf_high == split[3]
         IN  IF pmf_high # Rat0 /\ BelowTarget(cdf_low, target, e)
             THEN ClampUnit(Near(RSub(RInt(1), RDiv(RSub(target, cdf_low), pmf_high)), 0 - e))
             ELSE Near(RInt(1), 0) :
            split \in {binom_cdf_split(n, target, e)}})

\* The probability p of the upper margin, clamped to [0, 1] (lines 40-51).
SignMarginP(n, target, e) ==
    The({LET cdf_low == split[2]
             pmf_high == split[3]
         IN  IF pmf_high # Rat0 /\ BelowTarget(cdf_low, target, e)
             THEN ClampUnit(Near(RDiv(RSub(target, cdf_low), pmf_high), e))
             ELSE Near(Rat0, 0) :
            split \in {binom_cdf_split(n, target, e)}})

\* u < p
DrawBelow(u, p) == RLt(u, p.q) \/ (u = p.q /\ p.side > 0)

\* Returns the margin and the generator it leaves behind.
sign_margin_randomized(n, mr, rng, e) ==
    IF n <= 0 THEN Raise("domain", "x")
    ELSE IF MisrateOutOfRange(mr) THEN Raise("domain", "misrate")
    ELSE LET min_misrate == min_achievable_misrate_one_sample(n)
         IN  IF IsError(min_misrate) THEN min_misrate
             ELSE IF MisLt(mr, min_misrate.value) THEN Raise("domain", "misrate")
             ELSE IF RLe(HalfMis(mr), Rat0)
                  THEN [status |-> "value", value |-> 0, calls |-> NoCalls, rng |-> rng]
             ELSE IF RLe(RInt(1), HalfMis(mr))
                  THEN [status |-> "value", value |-> n * 2, calls |-> NoCalls, rng |-> rng]
             ELSE The({[status |-> "value",
                        value |-> (IF DrawBelow(u.value, p) THEN r_low + 1 ELSE r_low) * 2,
                        calls |-> <<"uniform">>, rng |-> u.rng] :
                          <<r_low, p, u>> \in
                              {The({<<binom_cdf_split(n, target, e)[1],
                                      SignMarginP(n, target, e), RngUniform(rng)>> :
                                        target \in {HalfMis(mr)}})}})

\* --------------------------------------------- fast_center, fast_spread, fast_shift
\* x[i] + x[j] for i <= j: twice the pairwise averages.
PairSums(v) ==
    The({[q \in {r \in (1..Len(w)) \X (1..Len(w)) : r[1] <= r[2]} |-> w[q[1]] + w[q[2]]] :
            w \in {v}})

\* |x[i] - x[j]| for i < j.
PairAbsDiffs(v) ==
    The({[q \in {r \in (1..Len(w)) \X (1..Len(w)) : r[1] < r[2]} |->
             Abs(w[q[1]] - w[q[2]])] :
            w \in {v}})

\* The median of the pairwise averages.
fast_center(v) == The({RMul(Median(s), Rat(1, 2)) : s \in {PairSums(v)}})

\* The median of the pairwise absolute differences; 0 for a single value.
fast_spread(v) ==
    IF Len(v) = 1 THEN RInt(0) ELSE The({Median(s) : s \in {PairAbsDiffs(v)}})

\* A float of log space is modelled by the positive rational it is the
\* logarithm of: a difference of logarithms is a quotient, their order is the
\* order of the rationals, exp gives the rational back.
LogOf(q) == [t |-> "log", v |-> q]

NumSub(a, b) ==
    IF a.t = "log" THEN LogOf(RDiv(a.v, b.v)) ELSE Fin(a.v - b.v)

NumLe(a, b) == IF a.t = "log" THEN RLe(a.v, b.v) ELSE a.v <= b.v

NumCountLt(s, e) == Cardinality({i \in DOMAIN s : ~ NumLe(e, s[i])})

NumCountLe(s, e) == Cardinality({i \in DOMAIN s : NumLe(s[i], e)})

NumOrderStat(s, k) ==
    CHOOSE e \in {s[i] : i \in DOMAIN s} : NumCountLt(s, e) < k /\ k <= NumCountLe(s, e)

\* sorted(values)
NumSorted(s) == [k \in 1..Len(s) |-> NumOrderStat(s, k)] \o <<>>

\* x[i] - y[j] for every i and j.
PairDiffs(xs, ys) ==
    [k \in 1..(Len(xs) * Len(ys)) |->
        NumSub(xs[((k - 1) \div Len(ys)) + 1], ys[((k - 1) % Len(ys)) + 1])] \o <<>>

\* _fast_shift(x, y, p) at p = k / (total - 1): the order statistic of rank k
\* (0-based) of the pairwise differences.
fast_shift_quantile(xs, ys, k) == The({NumOrderStat(d, k + 1) : d \in {PairDiffs(xs, ys)}})

\* _fast_shift(x, y, p=0.5): the median of the pairwise differences, as the
\* pair of order statistics it is the midpoint of.
fast_shift_median(xs, ys) ==
    The({IF Len(d) % 2 = 1
         THEN <<NumOrderStat(d, (Len(d) + 1) \div 2), NumOrderStat(d, (Len(d) + 1) \div 2)>>
         ELSE <<NumOrderStat(d, Len(d) \div 2), NumOrderStat(d, Len(d) \div 2 + 1)>> :
            d \in {PairDiffs(xs, ys)}})

\* --------------------------------------------------------- pairwise_margin
\* The number of arrangements of i values of x and j values of y with
\* Mann-Whitney statistic u is count(i, j, u) = count(i - 1, j, u - j)
\* + count(i, j - 1, u), and count(i, j, 0) = 1 when i = 0 or j = 0.  A cell
\* holds count(i, j, u) at index u + 1, a row the cells of one i at index j + 1.
MannWhitneyUnit(size) == [k \in 1..size |-> IF k = 1 THEN 1 ELSE 0] \o <<>>

MannWhitneyCell(up, left, j, size) ==
    [k \in 1..size |-> (IF k - j >= 1 THEN up[k - j] ELSE 0) + left[k]] \o <<>>

RECURSIVE MannWhitneyRow(_, _, _, _, _)
MannWhitneyRow(prev, row, j, m, size) ==
    IF j > m THEN row
    ELSE The({MannWhitneyRow(prev, r, j + 1, m, size) :
                 r \in {Append(row, MannWhitneyCell(prev[j + 1], row[j], j, size))}})

RECURSIVE MannWhitneyRows(_, _, _, _, _)
MannWhitneyRows(row, i, n, m, size) ==
    IF i > n THEN row
    ELSE The({MannWhitneyRows(r, i + 1, n, m, size) :
                 r \in {MannWhitneyRow(row, <<MannWhitneyUnit(size)>>, 1, m, size)}})

MannWhitneyCounts(n, m) ==
    MannWhitneyRows([j \in 1..(m + 1) |-> MannWhitneyUnit(n * m + 1)] \o <<>>,
                    1, n, m, n * m + 1)[m + 1]

\* The running sums of a tuple.
RECURSIVE RunningSums(_, _, _)
RunningSums(counts, sums, k) ==
    IF k > Len(counts) THEN sums
    ELSE The({RunningSums(counts, s, k + 1) :
                 s \in {Append(sums, (IF k = 1 THEN 0 ELSE sums[k - 1]) + counts[k])}})

\* The distribution function of the Mann-Whitney statistic, on 0..n*m.
MannWhitneyCdf(n, m) ==
    The({[u \in 0..(n * m) |-> Rat(cum[u + 1], total)] :
            cum \in {The({RunningSums(c, <<>>, 1) : c \in {MannWhitneyCounts(n, m)}})},
            total \in {Comb(n + m, n)}})

pairwise_margin(n, m, mr) ==
    IF n <= 0 THEN Raise("domain", "x")
    ELSE IF m <= 0 THEN Raise("domain", "y")
    ELSE IF MisrateOutOfRange(mr) THEN Raise("domain", "misrate")
    ELSE IF MisLt(mr, Rat(2, Comb(n + m, n))) THEN Raise("domain", "misrate")
    ELSE The({Value(ScanCdf(cdf, p, 0, n * m) * 2, NoCalls) :
                 cdf \in {MannWhitneyCdf(n, m)}, p \in {HalfMis(mr)}})

\* -------------------------------------------------- _fast_center_quantiles
\* RELATIVE_EPSILON.  The samples of the model are integers, whose pairwise
\* averages are at least 1/2 apart; the epsilon is scaled with them, from
\* 1e-14 to 2^-EpsBits, which keeps every float of the search a dyadic
\* rational the model computes exactly.
RELATIVE_EPSILON == Rat(1, 2 ^ EpsBits)

RMax3(a, b, c) == RMax(a, RMax(b, c))

\* 2^e as a float, for an exponent e of either sign.
Pow2(e) == IF e >= 0 THEN RInt(2 ^ e) ELSE Rat(1, 2 ^ (0 - e))

\* The exponent e of a positive real a: 2^(MantBits-1) <= a / 2^e < 2^MantBits.
RECURSIVE FloatExponent(_, _)
FloatExponent(a, e) ==
    IF ~ RLt(a, Pow2(e + MantBits)) THEN FloatExponent(a, e + 1)
    ELSE IF RLt(a, Pow2(e + MantBits - 1)) THEN FloatExponent(a, e - 1)
    ELSE e

\* The float a real q rounds to: the nearest number of MantBits bits of
\* mantissa, the one of even mantissa on a tie.  Whole numbers below
\* 2^MantBits are floats.
FloatRound(q) ==
    IF q.d = 1 /\ Abs(q.n) < 2 ^ MantBits THEN q
    ELSE The({The({The({RMul(RInt(IF q.n < 0 THEN 0 - 1 ELSE 1),
                             RMul(RInt(IF RLt(Rat(1, 2), frac) \/ (frac = Rat(1, 2) /\ m % 2 = 1)
                                       THEN m + 1 ELSE m),
                                  Pow2(e))) :
                          frac \in {RSub(scaled, RInt(m))}}) :
                     <<scaled, m>> \in {The({<<x, x.n \div x.d>> :
                                             x \in {RDiv(RAbs(q), Pow2(e))}})}}) :
                e \in {FloatExponent(RAbs(q), 0)}})

\* while j >= 0 and sorted_vals[j] > target: j -= 1   (j is 1-based here)
RECURSIVE CountPairsSkip(_, _, _)
CountPairsSkip(sv, target, j) ==
    IF j >= 1 /\ RLt(target, RInt(sv[j])) THEN CountPairsSkip(sv, target, j - 1) ELSE j

\* for i in range(n): ...   (i is 1-based here; j is not reset)
RECURSIVE CountPairsLoop(_, _, _, _, _)
CountPairsLoop(sv, threshold, i, j, count) ==
    IF i > Len(sv) THEN count
    ELSE The({CountPairsLoop(sv, threshold, i + 1, j2,
                             IF j2 >= i THEN c + (j2 - i + 1) ELSE c) :
                 <<j2, c>> \in
                     {The({<<CountPairsSkip(sv, target, j), count>> :
                             target \in {FloatRound(RSub(RMul(RInt(2), threshold), RInt(sv[i])))}})}})

count_pairs_less_or_equal(sv, threshold) ==
    The({CountPairsLoop(sv, t, 1, Len(sv), 0) : t \in {threshold}})

\* while hi - lo > RELATIVE_EPSILON * max(1.0, abs(lo), abs(hi)): ...
RECURSIVE QuantileSearch(_, _, _, _)
QuantileSearch(sv, k, lo, hi) ==
    IF ~ RLt(RMul(RELATIVE_EPSILON, RMax3(RInt(1), RAbs(lo), RAbs(hi))), RSub(hi, lo))
    THEN <<lo, hi>>
    ELSE The({IF count_pairs_less_or_equal(sv, mid) < k
              THEN QuantileSearch(sv, k, mid, h)
              ELSE QuantileSearch(sv, k, l, mid) :
                 <<l, h, mid>> \in
                     {The({<<x, y, RMul(RAdd(x, y), Rat(1, 2))>> : x \in {lo}, y \in {hi}})}})

\* while left < right: m = (left + right) // 2; ...   (0-based, as in the code)
RECURSIVE LeftBoundary(_, _, _, _)
LeftBoundary(sv, threshold, left, right) ==
    IF ~ (left < right) THEN left
    ELSE The({IF RLt(RInt(sv[m + 1]), RSub(threshold, RELATIVE_EPSILON))
              THEN LeftBoundary(sv, threshold, m + 1, r)
              ELSE LeftBoundary(sv, threshold, l, m) :
                 <<l, r, m>> \in {The({<<x, y, (x + y) \div 2>> : x \in {left}, y \in {right}})}})

\* The candidates the pass for one i (0-based) appends.
CandidatesAt(sv, target, i) ==
    The({LET n == Len(sv)
             at == IF left < n /\ left >= i
                      /\ RLt(RAbs(RSub(RInt(sv[left + 1]), threshold)),
                             RMul(RELATIVE_EPSILON, RMax(RInt(1), RAbs(threshold))))
                   THEN {Rat(sv[i + 1] + sv[left + 1], 2)} ELSE {}
             avg_before == Rat(sv[i + 1] + sv[IF left > i THEN left ELSE 1], 2)
             before == IF left > i /\ RLe(avg_before, RAdd(target, RELATIVE_EPSILON))
                       THEN {avg_before} ELSE {}
         IN  at \cup before :
            <<threshold, left>> \in
                {The({<<t, LeftBoundary(sv, t, i, Len(sv))>> :
                        t \in {RSub(RMul(RInt(2), target), RInt(sv[i + 1]))}})}})

\* The least element of a non-empty set of rationals.
RLeast(S) == CHOOSE c \in S : \A e \in S : RLe(c, e)

find_exact_quantile(sv, k) ==
    LET n == Len(sv)
        total_pairs == (n * (n + 1)) \div 2
    IN  IF n = 1 THEN RInt(sv[1])
        ELSE IF k = 1 THEN RInt(sv[1])
        ELSE IF k = total_pairs THEN RInt(sv[n])
        ELSE The({IF candidates = {} THEN target
                  ELSE IF {c \in candidates : count_pairs_less_or_equal(sv, c) >= k} # {}
                  THEN RLeast({c \in candidates : count_pairs_less_or_equal(sv, c) >= k})
                  ELSE target :
                     <<target, candidates>> \in
                         {The({<<t, UNION {CandidatesAt(sv, t, i) : i \in 0..(n - 1)}>> :
                                 t \in {The({RMul(RAdd(lh[1], lh[2]), Rat(1, 2)) :
                                               lh \in {QuantileSearch(sv, k, RInt(sv[1]),
                                                                      RInt(sv[n]))}})}})}})

fast_center_quantile_bounds(sv, k_lo, k_hi) ==
    LET n == Len(sv)
        total_pairs == (n * (n + 1)) \div 2
        lo == Max2(1, Min2(k_lo, total_pairs))
        hi == Max2(1, Min2(k_hi, total_pairs))
    IN  The({<<RMin(lower, upper), RMax(lower, upper)>> :
                lower \in {find_exact_quantile(sv, lo)},
                upper \in {find_exact_quantile(sv, hi)}})

\* ------------------------------------------------------- point estimators
Bounds(lower, upper, calls) ==
    [status |-> "bounds", lower |-> lower, upper |-> upper, calls |-> calls]

center(xs) ==
    LET vx == check_validity(xs, "x")
    IN  IF IsError(vx) THEN vx
        ELSE Value(fast_center(Nums(xs)), <<"fast_center">>)

spread(xs) ==
    LET vx == check_validity(xs, "x")
    IN  IF IsError(vx) THEN vx
        ELSE The({IF RLe(spread_val, Rat0)
                  THEN After(<<"fast_spread">>, Raise("sparity", "x"))
                  ELSE Value(spread_val, <<"fast_spread">>) :
                     spread_val \in {fast_spread(Nums(xs))}})

\* The midpoint of two floats of one space: the pair <<a, b>> stands for
\* (a + b) / 2, which is a rational for plain floats.
MidReal(ab) == The({Rat(p[1].v + p[2].v, 2) : p \in {ab}})

shift(xs, ys) ==
    LET vx == check_validity(xs, "x")
        vy == check_validity(ys, "y")
    IN  IF IsError(vx) THEN vx
        ELSE IF IsError(vy) THEN vy
        ELSE Value(MidReal(fast_shift_median(xs, ys)), <<"fast_shift">>)

\* np.log(values) on positive finite values.
NpLog(values) == The({[i \in DOMAIN s |-> LogOf(RInt(s[i].v))] \o <<>> : s \in {values}})

\* np.exp of the midpoint of two logarithms: the geometric mean of the two
\* rationals, kept as the pair unless they are equal.
ExpMid(ab) ==
    The({IF p[1] = p[2] THEN [t |-> "exact", lo |-> p[1].v, hi |-> p[1].v]
         ELSE [t |-> "geomean", lo |-> p[1].v, hi |-> p[2].v] : p \in {ab}})

\* ratio with the positivity of y checked before the positivity of x.
ratio_y_first(xs, ys) ==
    LET vx == check_validity(xs, "x")
        vy == check_validity(ys, "y")
        px == check_positivity(xs, "x")
        py == check_positivity(ys, "y")
    IN  IF IsError(vx) THEN vx
        ELSE IF IsError(vy) THEN vy
        ELSE IF IsError(py) THEN py
        ELSE IF IsError(px) THEN px
        ELSE Value(ExpMid(fast_shift_median(NpLog(xs), NpLog(ys))), <<"fast_shift">>)

ratio(xs, ys) ==
    LET vx == check_validity(xs, "x")
        vy == check_validity(ys, "y")
        px == check_positivity(xs, "x")
        py == check_positivity(ys, "y")
    IN  IF IsError(vx) THEN vx
        ELSE IF IsError(vy) THEN vy
        ELSE IF IsError(px) THEN px
        ELSE IF IsError(py) THEN py
        ELSE Value(ExpMid(fast_shift_median(NpLog(xs), NpLog(ys))), <<"fast_shift">>)

\* The average of a and b with the weights of the other sample: m for a, n
\* for b.
WeightedAvg_swapped(n, a, m, b) ==
    RDiv(RAdd(RMul(RInt(m), a), RMul(RInt(n), b)), RInt(n + m))

WeightedAvg(n, a, m, b) ==
    RDiv(RAdd(RMul(RInt(n), a), RMul(RInt(m), b)), RInt(n + m))

avg_spread(xs, ys) ==
    LET vx == check_validity(xs, "x")
        vy == check_validity(ys, "y")
    IN  IF IsError(vx) THEN vx
        ELSE IF IsError(vy) THEN vy
        ELSE The({IF RLe(spread_x, Rat0)
                  THEN After(<<"fast_spread">>, Raise("sparity", "x"))
                  ELSE IF RLe(spread_y, Rat0)
                  THEN After(<<"fast_spread", "fast_spread">>, Raise("sparity", "y"))
                  ELSE Value(WeightedAvg(Len(xs), spread_x, Len(ys), spread_y),
                             <<"fast_spread", "fast_spread">>) :
                     spread_x \in {fast_spread(Nums(xs))},
                     spread_y \in {fast_spread(Nums(ys))}})

disparity(xs, ys) ==
    LET vx == check_validity(xs, "x")
        vy == check_validity(ys, "y")
    IN  IF IsError(vx) THEN vx
        ELSE IF IsError(vy) THEN vy
        ELSE The({IF RLe(spread_x, Rat0)
                  THEN After(<<"fast_spread">>, Raise("sparity", "x"))
                  ELSE IF RLe(spread_y, Rat0)
                  THEN After(<<"fast_spread", "fast_spread">>, Raise("sparity", "y"))
                  ELSE Value(RDiv(MidReal(fast_shift_median(xs, ys)),
                                  WeightedAvg(Len(xs), spread_x, Len(ys), spread_y)),
                             <<"fast_spread", "fast_spread", "fast_shift">>) :
                     spread_x \in {fast_spread(Nums(xs))},
                     spread_y \in {fast_spread(Nums(ys))}})

\* ------------------------------------------------------ bounds estimators
NumMin(a, b) == The({IF NumLe(x, y) THEN x ELSE y : x \in {a}, y \in {b}})

NumMax(a, b) == The({IF NumLe(x, y) THEN y ELSE x : x \in {a}, y \in {b}})

\* The ranks of shift_bounds without the clamp: half_margin = margin // 2.
ShiftRanks_unclamped(total, margin) ==
    [k_left |-> margin \div 2, k_right |-> (total - 1) - margin \div 2]

\* half_margin, k_left and k_right of shift_bounds (lines 335-337), 0-based.
ShiftRanks(total, margin) ==
    LET half_margin == Min2(margin \div 2, (total - 1) \div 2)
    IN  [k_left |-> half_margin, k_right |-> (total - 1) - half_margin]

\* half_margin, k_left and k_right of center_bounds (lines 441-445), 1-based.
CenterRanks(total_pairs, margin) ==
    LET half_margin == Min2(margin \div 2, (total_pairs - 1) \div 2)
    IN  [k_left |-> half_margin + 1, k_right |-> total_pairs - half_margin]

\* The part of shift_bounds after its checks (lines 324-348).
shift_bounds_compute(xs0, ys0, mr) ==
    The({LET total == Len(xs) * Len(ys)
         IN  IF total = 1
             THEN Bounds(NumSub(xs[1], ys[1]), NumSub(xs[1], ys[1]), NoCalls)
             ELSE The({IF IsError(margin) THEN After(<<"pairwise_margin">>, margin)
                       ELSE LET k_left == ShiftRanks(total, margin.value).k_left
                                k_right == ShiftRanks(total, margin.value).k_right
                            IN  The({Bounds(NumMin(b1, b2), NumMax(b1, b2),
                                            <<"pairwise_margin", "fast_shift">>) :
                                        b1 \in {fast_shift_quantile(xs, ys, k_left)},
                                        b2 \in {fast_shift_quantile(xs, ys, k_right)}}) :
                          margin \in {pairwise_margin(Len(xs), Len(ys), mr)}}) :
            xs \in {NumSorted(xs0)}, ys \in {NumSorted(ys0)}})

shift_bounds(xs, ys, mr) ==
    LET vx == check_validity(xs, "x")
        vy == check_validity(ys, "y")
        min_misrate == min_achievable_misrate_two_sample(Len(xs), Len(ys))
    IN  IF IsError(vx) THEN vx
        ELSE IF IsError(vy) THEN vy
        ELSE IF MisrateOutOfRange(mr) THEN Raise("domain", "misrate")
        ELSE IF IsError(min_misrate) THEN min_misrate
        ELSE IF MisLt(mr, min_misrate.value) THEN Raise("domain", "misrate")
        ELSE shift_bounds_compute(xs, ys, mr)

\* log(values, subject) of assumptions.py
log(values, subject) ==
    IF \E i \in DOMAIN values : LeZero(values[i])
    THEN Raise("positivity", subject)
    ELSE Value(NpLog(values), NoCalls)

\* shift_bounds on the logarithms, y before x, and exp of its bounds.
RatioOfLogs_y_over_x(log_x, log_y, mr) ==
    The({IF log_bounds.status # "bounds" THEN After(<<"shift_bounds">>, log_bounds)
         ELSE Bounds(log_bounds.lower.v, log_bounds.upper.v,
                     <<"shift_bounds">> \o log_bounds.calls) :
            log_bounds \in {The({shift_bounds(ly, lx, mr) :
                                   lx \in {log_x.value}, ly \in {log_y.value}})}})

\* The end of ratio_bounds: shift_bounds on the logarithms, and exp of its bounds.
RatioOfLogs(log_x, log_y, mr) ==
    The({IF log_bounds.status # "bounds" THEN After(<<"shift_bounds">>, log_bounds)
         ELSE Bounds(log_bounds.lower.v, log_bounds.upper.v,
                     <<"shift_bounds">> \o log_bounds.calls) :
            log_bounds \in {The({shift_bounds(lx, ly, mr) :
                                   lx \in {log_x.value}, ly \in {log_y.value}})}})

\* ratio_bounds with the log-transform (positivity) ahead of the misrate checks.
ratio_bounds_log_first(xs, ys, mr) ==
    LET vx == check_validity(xs, "x")
        vy == check_validity(ys, "y")
        min_misrate == min_achievable_misrate_two_sample(Len(xs), Len(ys))
        log_x == log(xs, "x")
        log_y == log(ys, "y")
    IN  IF IsError(vx) THEN vx
        ELSE IF IsError(vy) THEN vy
        ELSE IF IsError(log_x) THEN log_x
        ELSE IF IsError(log_y) THEN log_y
        ELSE IF MisrateOutOfRange(mr) THEN Raise("domain", "misrate")
        ELSE IF IsError(min_misrate) THEN min_misrate
        ELSE IF MisLt(mr, min_misrate.value) THEN Raise("domain", "misrate")
        ELSE RatioOfLogs(log_x, log_y, mr)

ratio_bounds(xs, ys, mr) ==
    LET vx == check_validity(xs, "x")
        vy == check_validity(ys, "y")
        min_misrate == min_achievable_misrate_two_sample(Len(xs), Len(ys))
        log_x == log(xs, "x")
        log_y == log(ys, "y")
    IN  IF IsError(vx) THEN vx
        ELSE IF IsError(vy) THEN vy
        ELSE IF MisrateOutOfRange(mr) THEN Raise("domain", "misrate")
        ELSE IF IsError(min_misrate) THEN min_misrate
        ELSE IF MisLt(mr, min_misrate.value) THEN Raise("domain", "misrate")
        ELSE IF IsError(log_x) THEN log_x
        ELSE IF IsError(log_y) THEN log_y
        ELSE RatioOfLogs(log_x, log_y, mr)

\* The part of center_bounds after its checks (lines 439-454).
center_bounds_compute(xs, mr) ==
    The({IF IsError(margin) THEN After(<<"signed_rank_margin">>, margin)
         ELSE LET n == Len(xs)
                  total_pairs == (n * (n + 1)) \div 2
                  k_left == CenterRanks(total_pairs, margin.value).k_left
                  k_right == CenterRanks(total_pairs, margin.value).k_right
              IN  The({Bounds(lh[1], lh[2],
                              <<"signed_rank_margin", "fast_center_quantile_bounds">>) :
                          lh \in {The({fast_center_quantile_bounds(sorted_x, k_left, k_right) :
                                         sorted_x \in {Nums(NumSorted(xs))}})}}) :
            margin \in {signed_rank_margin(Len(xs), mr, NoEdgeworth)}})

\* center_bounds that leaves the minimum-misrate check to signed_rank_margin.
center_bounds_margin_first(xs, mr) ==
    LET vx == check_validity(xs, "x")
        n == Len(xs)
    IN  IF IsError(vx) THEN vx
        ELSE IF MisrateOutOfRange(mr) THEN Raise("domain", "misrate")
        ELSE IF n < 2 THEN Raise("domain", "x")
        ELSE center_bounds_compute(xs, mr)

center_bounds(xs, mr) ==
    LET vx == check_validity(xs, "x")
        n == Len(xs)
        min_misrate == min_achievable_misrate_one_sample(n)
    IN  IF IsError(vx) THEN vx
        ELSE IF MisrateOutOfRange(mr) THEN Raise("domain", "misrate")
        ELSE IF n < 2 THEN Raise("domain", "x")
        ELSE IF IsError(min_misrate) THEN min_misrate
        ELSE IF MisLt(mr, min_misrate.value) THEN Raise("domain", "misrate")
        ELSE center_bounds_compute(xs, mr)

\* seq[i] of Python for a 0-based i: a negative index counts from the end,
\* an index outside the list raises IndexError.
PyIndexOk(s, i) == 0 - Len(s) <= i /\ i < Len(s)

PyIndex(s, i) == IF i < 0 THEN s[Len(s) + i + 1] ELSE s[i + 1]

\* max_half_margin without the room for the two ranks: m // 2.
SpreadMaxHalfMargin_loose(m) == m \div 2

\* max_half_margin of spread_bounds
SpreadMaxHalfMargin(m) == (m - 1) \div 2

\* half_margin, k_left and k_right of spread_bounds (lines 497-503), 1-based.
SpreadRanks(m, margin) ==
    LET half_margin0 == margin \div 2
        max_half_margin == SpreadMaxHalfMargin(m)
        half_margin == IF half_margin0 > max_half_margin
                       THEN max_half_margin ELSE half_margin0
    IN  [k_left |-> half_margin + 1, k_right |-> m - half_margin]

\* Pairs of neighbours of the shuffled list: pair i starts where pair i - 1
\* ends.
DisjointPairs_chained(shuffled, m) ==
    [i \in 1..m |-> <<shuffled[i], shuffled[i + 1]>>] \o <<>>

\* The disjoint pairs of a shuffled list of indices (0-based), in order.
DisjointPairs(shuffled, m) ==
    [i \in 1..m |-> <<shuffled[2 * (i - 1) + 1], shuffled[2 * (i - 1) + 2]>>] \o <<>>

\* sorted(abs(x[a] - x[b]) for the disjoint pairs (a, b))
SortedPairDiffs(v, pairs) ==
    The({[k \in 1..Len(pairs) |-> OrderStat(pair_diffs, k)] \o <<>> :
            pair_diffs \in {[i \in 1..Len(pairs) |->
                               Abs(v[pairs[i][1] + 1] - v[pairs[i][2] + 1])] \o <<>>}})

\* rng = Rng(), whatever the seed argument: a generator seeded by what the
\* process holds at the time of the call.
spread_bounds_rng_unseeded(seed, entropy) == RngNew(entropy)

\* rng = Rng(seed) if seed is not None else Rng()  (line 495)
spread_bounds_rng(seed, entropy) ==
    IF seed # NoSeed THEN RngNew(seed) ELSE RngNew(entropy)

\* The part of spread_bounds after its checks (lines 495-511).  seed is the
\* seed argument, entropy what Rng() seeds itself with when seed is None, e
\* the rounding of the call of sign_margin_randomized.
spread_bounds_compute(xs, mr, seed, entropy, e) ==
    The({IF IsError(margin)
         THEN After(<<"fast_spread", "Rng", "sign_margin_randomized">>, margin)
         ELSE LET m == Len(xs) \div 2
                  k_left == SpreadRanks(m, margin.value).k_left
                  k_right == SpreadRanks(m, margin.value).k_right
                  calls == <<"fast_spread", "Rng", "sign_margin_randomized">>
                           \o margin.calls \o <<"shuffle">>
              IN  The({IF ~ (PyIndexOk(diffs, k_left - 1) /\ PyIndexOk(diffs, k_right - 1))
                       THEN After(calls, Crash("IndexError"))
                       ELSE [status |-> "bounds",
                             lower |-> RInt(PyIndex(diffs, k_left - 1)),
                             upper |-> RInt(PyIndex(diffs, k_right - 1)),
                             calls |-> calls, k_left |-> k_left, k_right |-> k_right,
                             pairs |-> pairs] :
                          <<pairs, diffs>> \in
                              {The({<<p, SortedPairDiffs(Nums(xs), p)>> :
                                      p \in {The({DisjointPairs(shuffled, m) :
                                                    shuffled \in
                                                        {RngShuffle(margin.rng,
                                                             [i \in 1..Len(xs) |-> i - 1]
                                                                 \o <<>>).value}})}})}}) :
            margin \in {sign_margin_randomized(
                            Len(xs) \div 2, mr,
                            spread_bounds_rng(seed, entropy), e)}})

\* The checks of spread_bounds (lines 478-493).
spread_bounds_checks(xs, mr) ==
    LET vx == check_validity(xs, "x")
        n == Len(xs)
        m == n \div 2
        min_misrate_val == min_achievable_misrate_one_sample(m)
    IN  IF IsError(vx) THEN vx
        ELSE IF MisrateOutOfRange(mr) THEN Raise("domain", "misrate")
        ELSE IF IsError(min_misrate_val) THEN min_misrate_val
        ELSE IF MisLt(mr, min_misrate_val.value) THEN Raise("domain", "misrate")
        ELSE IF n < 2 THEN Raise("sparity", "x")
        ELSE IF RLe(fast_spread(Nums(xs)), Rat0)
        THEN After(<<"fast_spread">>, Raise("sparity", "x"))
        ELSE Passed

spread_bounds(xs, mr, seed, entropy, e) ==
    The({IF IsError(checks) THEN checks
         ELSE spread_bounds_compute(xs, mr, seed, entropy, e) :
            checks \in {spread_bounds_checks(xs, mr)}})

MisOf(r) == [t |-> "fin", v |-> r]

\* The checks of _avg_spread_bounds (lines 632-656).
avg_spread_bounds_checks(xs, ys, mr) ==
    LET vx == check_validity(xs, "x")
        vy == check_validity(ys, "y")
        n == Len(xs)
        m == Len(ys)
        alpha == MisOf(HalfMis(mr))
        min_x == min_achievable_misrate_one_sample(n \div 2)
        min_y == min_achievable_misrate_one_sample(m \div 2)
    IN  IF IsError(vx) THEN vx
        ELSE IF IsError(vy) THEN vy
        ELSE IF MisrateOutOfRange(mr) THEN Raise("domain", "misrate")
        ELSE IF n < 2 THEN Raise("domain", "x")
        ELSE IF m < 2 THEN Raise("domain", "y")
        ELSE IF IsError(min_x) THEN min_x
        ELSE IF IsError(min_y) THEN min_y
        ELSE IF MisLt(alpha, min_x.value) \/ MisLt(alpha, min_y.value)
             THEN Raise("domain", "misrate")
        ELSE IF RLe(fast_spread(Nums(xs)), Rat0)
             THEN After(<<"fast_spread">>, Raise("sparity", "x"))
        ELSE IF RLe(fast_spread(Nums(ys)), Rat0)
             THEN After(<<"fast_spread", "fast_spread">>, Raise("sparity", "y"))
        ELSE Passed

\* The part of _avg_spread_bounds after its checks (lines 658-667).  entropy:
\* what the Rng() of the call on x and of the call on y seed themselves with
\* when seed is None; e: the roundings of the two calls.
avg_spread_bounds_compute(xs, ys, mr, seed, entropy, e) ==
    The({LET n == Len(xs)
             m == Len(ys)
             weight_x == Rat(n, n + m)
             weight_y == Rat(m, n + m)
             spreads == <<"fast_spread", "fast_spread">>
         IN  IF bounds_x.status # "bounds"
             THEN After(spreads \o <<"spread_bounds">>, bounds_x)
             ELSE The({IF bounds_y.status # "bounds"
                       THEN After(spreads \o <<"spread_bounds">> \o bounds_x.calls
                                      \o <<"spread_bounds">>, bounds_y)
                       ELSE Bounds(RAdd(RMul(weight_x, bounds_x.lower),
                                        RMul(weight_y, bounds_y.lower)),
                                   RAdd(RMul(weight_x, bounds_x.upper),
                                        RMul(weight_y, bounds_y.upper)),
                                   spreads \o <<"spread_bounds">> \o bounds_x.calls
                                       \o <<"spread_bounds">> \o bounds_y.calls) :
                          bounds_y \in {spread_bounds(ys, alpha, seed, entropy[2], e[2])}}) :
            <<alpha, bounds_x>> \in
                {The({<<a, spread_bounds(xs, a, seed, entropy[1], e[1])>> :
                        a \in {MisOf(HalfMis(mr))}})}})

avg_spread_bounds(xs, ys, mr, seed, entropy, e) ==
    The({IF IsError(checks) THEN checks
         ELSE avg_spread_bounds_compute(xs, ys, mr, seed, entropy, e) :
            checks \in {avg_spread_bounds_checks(xs, ys, mr)}})

RMin4(a, b, c, d) == RMin(RMin(a, b), RMin(c, d))

RMax4(a, b, c, d) == RMax(RMax(a, b), RMax(c, d))

\* The bounds of the shift divided by the lower bound of the average spread,
\* with no look at the other two corners.
disparity_interval_by_lower(ls, us, la, ua) ==
    IF RLt(Rat0, la) THEN <<RDiv(ls, la), RDiv(us, la)>>
    ELSE IF RLe(Rat0, ls) THEN <<Rat0, PosInf>>
    ELSE IF RLe(us, Rat0) THEN <<NegInf, Rat0>>
    ELSE <<NegInf, PosInf>>

\* The case analysis of disparity_bounds (lines 573-606) on the shift bounds
\* [ls, us] and the avg-spread bounds [la, ua].
disparity_interval(ls, us, la, ua) ==
    IF RLt(Rat0, la)
    THEN The({<<RMin4(r1, r2, r3, r4), RMax4(r1, r2, r3, r4)>> :
                 r1 \in {RDiv(ls, la)}, r2 \in {RDiv(ls, ua)},
                 r3 \in {RDiv(us, la)}, r4 \in {RDiv(us, ua)}})
    ELSE IF RLe(ua, Rat0)
    THEN IF ls = Rat0 /\ us = Rat0 THEN <<Rat0, Rat0>>
         ELSE IF RLe(Rat0, ls) THEN <<Rat0, PosInf>>
         ELSE IF RLe(us, Rat0) THEN <<NegInf, Rat0>>
         ELSE <<NegInf, PosInf>>
    ELSE IF RLt(Rat0, ls) THEN <<RDiv(ls, ua), PosInf>>
    ELSE IF RLt(us, Rat0) THEN <<NegInf, RDiv(us, ua)>>
    ELSE IF ls = Rat0 /\ us = Rat0 THEN <<Rat0, Rat0>>
    ELSE IF ls = Rat0 /\ RLt(Rat0, us) THEN <<Rat0, PosInf>>
    ELSE IF RLt(ls, Rat0) /\ us = Rat0 THEN <<NegInf, Rat0>>
    ELSE <<NegInf, PosInf>>

\* disparity_bounds giving each of its two components half of the misrate.
DisparitySplit_halves(n, m, mr) ==
    The({[min_shift |-> min_shift, min_avg |-> min_avg,
          extra |-> RSub(mr.v, RAdd(min_shift, min_avg)),
          alpha_shift |-> HalfMis(mr), alpha_avg |-> HalfMis(mr)] :
            min_shift \in {min_achievable_misrate_two_sample(n, m).value},
            min_avg \in {RMul(RInt(2),
                              RMax(min_achievable_misrate_one_sample(n \div 2).value,
                                   min_achievable_misrate_one_sample(m \div 2).value))}})

\* The rates disparity_bounds gives its two components (lines 553-563).
DisparitySplit(n, m, mr) ==
    The({The({[min_shift |-> min_shift, min_avg |-> min_avg, extra |-> extra,
               alpha_shift |-> RAdd(min_shift, RMul(extra, Rat(1, 2))),
               alpha_avg |-> RAdd(min_avg, RMul(extra, Rat(1, 2)))] :
                 extra \in {RSub(mr.v, RAdd(min_shift, min_avg))}}) :
            min_shift \in {min_achievable_misrate_two_sample(n, m).value},
            min_avg \in {RMul(RInt(2),
                              RMax(min_achievable_misrate_one_sample(n \div 2).value,
                                   min_achievable_misrate_one_sample(m \div 2).value))}})

\* The int a is 2^e or more.
IntAtLeastPow2(a, e) ==
    \/ Len(a) > e \div LimbBits + 1
    \/ Len(a) = e \div LimbBits + 1 /\ a[Len(a)] >= 2 ^ (e % LimbBits)

\* min_shift + min_avg is min_avg in floats: min_avg is the power of two
\* 2^(2 - j), j the lesser of n // 2 and m // 2, and min_shift is at most half
\* the last bit of its mantissa, 2 / comb <= 2^(2 - j - FloatMantBits).
\* math.comb(n + m, n) < 2^(n + m), so the int is worked out for
\* n + m >= FloatMantBits only.
SumAbsorbed(n, m) ==
    /\ n + m >= FloatMantBits
    /\ IntAtLeastPow2(IntComb(n + m, n), FloatMantBits - 1 + Min2(n \div 2, m \div 2))

\* misrate < min_shift + min_avg taken without rounding.
MisrateBelowSum_exact(n, m, mr) ==
    \E split \in {DisparitySplit(n, m, mr)} :
        RLt(mr.v, RAdd(split.min_shift, split.min_avg))

\* misrate < min_shift + min_avg  (line 559)
MisrateBelowSum(n, m, mr) ==
    IF SumAbsorbed(n, m)
    THEN RLt(mr.v, RMul(RInt(2), RMax(min_achievable_misrate_one_sample(n \div 2).value,
                                      min_achievable_misrate_one_sample(m \div 2).value)))
    ELSE MisrateBelowSum_exact(n, m, mr)

\* The checks of disparity_bounds on the misrate and the sizes (lines 543-560).
disparity_bounds_size_checks(n, m, mr) ==
    IF MisrateOutOfRange(mr) THEN Raise("domain", "misrate")
    ELSE IF n < 2 THEN Raise("domain", "x")
    ELSE IF m < 2 THEN Raise("domain", "y")
    ELSE IF MisrateBelowSum(n, m, mr) THEN Raise("domain", "misrate")
    ELSE Passed

\* The checks of disparity_bounds (lines 536-568).
disparity_bounds_checks(xs, ys, mr) ==
    LET vx == check_validity(xs, "x")
        vy == check_validity(ys, "y")
        sizes == disparity_bounds_size_checks(Len(xs), Len(ys), mr)
    IN  IF IsError(vx) THEN vx
        ELSE IF IsError(vy) THEN vy
        ELSE IF IsError(sizes) THEN sizes
        ELSE IF RLe(fast_spread(Nums(xs)), Rat0)
             THEN After(<<"fast_spread">>, Raise("sparity", "x"))
        ELSE IF RLe(fast_spread(Nums(ys)), Rat0)
             THEN After(<<"fast_spread", "fast_spread">>, Raise("sparity", "y"))
        ELSE Passed

\* The part of disparity_bounds after its checks (lines 570-606).
disparity_bounds_compute(xs, ys, mr, seed, entropy, e) ==
    The({LET spreads == <<"fast_spread", "fast_spread">>
         IN  IF sb.status # "bounds" THEN After(spreads \o <<"shift_bounds">>, sb)
             ELSE The({IF ab.status # "bounds"
                       THEN After(spreads \o <<"shift_bounds">> \o sb.calls
                                      \o <<"avg_spread_bounds">>, ab)
                       ELSE The({Bounds(iv[1], iv[2],
                                        spreads \o <<"shift_bounds">> \o sb.calls
                                            \o <<"avg_spread_bounds">> \o ab.calls) :
                                    iv \in {disparity_interval(
                                               RInt(sb.lower.v), RInt(sb.upper.v),
                                               ab.lower, ab.upper)}}) :
                          ab \in {The({avg_spread_bounds(xs, ys, a, seed, entropy, e) :
                                         a \in {MisOf(split.alpha_avg)}})}}) :
            <<split, sb>> \in
                {The({<<s, The({shift_bounds(xs, ys, a) : a \in {MisOf(s.alpha_shift)}})>> :
                        s \in {DisparitySplit(Len(xs), Len(ys), mr)}})}})

disparity_bounds(xs, ys, mr, seed, entropy, e) ==
    The({IF IsError(checks) THEN checks
         ELSE disparity_bounds_compute(xs, ys, mr, seed, entropy, e) :
            checks \in {disparity_bounds_checks(xs, ys, mr)}})

\* ---------------------------------------------------------- state machine
NoArgs == [none |-> TRUE]

NoRes == [status |-> "none"]

\* self._by_id = {}
NoUnits == [id \in {} |-> 0]

Init ==
    /\ pc = "idle" /\ op = "none" /\ args = NoArgs /\ res = NoRes
    /\ arrays = <<>> /\ samples = <<>>
    /\ registry = NoUnits

Seeds == 0..MaxSeed

\* A call on plain sequences and arrays: no Sample is made or touched.
Done(name, a, r) ==
    /\ pc' = "returned" /\ op' = name /\ args' = a /\ res' = r
    /\ UNCHANGED <<arrays, samples, registry>>

\* The caller takes the result; nothing of the call is kept.
Return ==
    /\ pc = "returned" /\ pc' = "idle" /\ op' = "none" /\ args' = NoArgs /\ res' = NoRes
    /\ UNCHANGED <<arrays, samples, registry>>

Call_center ==
    /\ pc = "idle"
    /\ \E xs \in Samples : Done("center", [x |-> xs], center(xs))

Call_spread ==
    /\ pc = "idle"
    /\ \E xs \in Samples : Done("spread", [x |-> xs], spread(xs))

Call_shift ==
    /\ pc = "idle"
    /\ \E xs \in Samples, ys \in Samples :
           Done("shift", [x |-> xs, y |-> ys], shift(xs, ys))

Call_ratio ==
    /\ pc = "idle"
    /\ \E xs \in Samples, ys \in Samples :
           Done("ratio", [x |-> xs, y |-> ys], ratio(xs, ys))

Call_disparity ==
    /\ pc = "idle"
    /\ \E xs \in Samples, ys \in Samples :
           Done("disparity", [x |-> xs, y |-> ys], disparity(xs, ys))

Call_shift_bounds ==
    /\ pc = "idle"
    /\ \E xs \in Samples, ys \in Samples, mr \in Misrates :
           Done("shift_bounds", [x |-> xs, y |-> ys, misrate |-> mr],
                shift_bounds(xs, ys, mr))

Call_ratio_bounds ==
    /\ pc = "idle"
    /\ \E xs \in Samples, ys \in Samples, mr \in Misrates :
           Done("ratio_bounds", [x |-> xs, y |-> ys, misrate |-> mr],
                ratio_bounds(xs, ys, mr))

Call_center_bounds ==
    /\ pc = "idle"
    /\ \E xs \in Samples, mr \in Misrates :
           Done("center_bounds", [x |-> xs, misrate |-> mr], center_bounds(xs, mr))

\* seed=None: the Rng seeds itself, once the call gets to build one.  The
\* rounding of the call is not an argument of it.
Call_spread_bounds ==
    /\ pc = "idle"
    /\ \E xs \in Samples, mr \in Misrates :
           LET a == [x |-> xs, misrate |-> mr, seed |-> NoSeed]
               checks == spread_bounds_checks(xs, mr)
           IN  IF IsError(checks) THEN Done("spread_bounds", a, checks)
               ELSE \E entropy \in Seeds, e \in Roundings :
                        Done("spread_bounds", a, spread_bounds(xs, mr, NoSeed, entropy, e))

Call_disparity_bounds ==
    /\ pc = "idle"
    /\ \E xs \in Samples, ys \in Samples, mr \in Misrates :
           LET a == [x |-> xs, y |-> ys, misrate |-> mr, seed |-> NoSeed]
               checks == disparity_bounds_checks(xs, ys, mr)
           IN  IF IsError(checks) THEN Done("disparity_bounds", a, checks)
               ELSE \E entropy \in Seeds \X Seeds, e \in Roundings \X Roundings :
                        Done("disparity_bounds", a,
                             disparity_bounds(xs, ys, mr, NoSeed, entropy, e))

\* Longer samples, for the calls that need them to return.
PairLen == 3
LongLen == 6

\* The valid samples of lo to hi values out of vals, in non-decreasing order.
SortedSeqs(vals, lo, hi) ==
    {s \in UNION {[1..j -> {Fin(v) : v \in vals}] : j \in lo..hi} :
        \A i \in 1..(Len(s) - 1) : s[i].v <= s[i + 1].v}

\* The valid samples of up to PairLen values.
PairSamples == SortedSeqs(0..MaxVal, 0, PairLen)

\* The valid samples of LongLen - 2 to LongLen values, each the least or the
\* greatest value of a sample.
LongSamples == SortedSeqs({0, MaxVal}, LongLen - 2, LongLen)

\* The samples of LongLen values among them.
FullSamples == {s \in LongSamples : Len(s) = LongLen}

\* The misrates m1 <= m2.
MisratePairs ==
    {mm \in Misrates \X Misrates :
        mm[1].t = "fin" /\ mm[2].t = "fin" /\ RLe(mm[1].v, mm[2].v)}

Pair(first, second) == [status |-> "pair", first |-> first, second |-> second]

\* center_bounds(x, m1) and center_bounds(x, m2) on one sample.
Call_center_bounds_pair ==
    /\ pc = "idle"
    /\ \E xs \in PairSamples, mm \in MisratePairs :
           Done("center_bounds_pair", [x |-> xs, m1 |-> mm[1], m2 |-> mm[2]],
                Pair(center_bounds(xs, mm[1]), center_bounds(xs, mm[2])))

\* spread_bounds(x, m1, seed) and spread_bounds(x, m2, seed) on one sample
\* and one seed that is not None.  Two calls with the same misrate are the
\* same computation and round alike.
Call_spread_bounds_pair ==
    /\ pc = "idle"
    /\ \E xs \in LongSamples, mm \in MisratePairs, seed \in Seeds :
           LET a == [x |-> xs, m1 |-> mm[1], m2 |-> mm[2], seed |-> seed]
               c1 == spread_bounds_checks(xs, mm[1])
               c2 == spread_bounds_checks(xs, mm[2])
           IN  IF IsError(c1) /\ IsError(c2)
               THEN Done("spread_bounds_pair", a, Pair(c1, c2))
               ELSE \E e1 \in Roundings :
                        \E e2 \in IF mm[1] = mm[2] THEN {e1} ELSE Roundings :
                            Done("spread_bounds_pair", a,
                                 Pair(spread_bounds(xs, mm[1], seed, seed, e1),
                                      spread_bounds(xs, mm[2], seed, seed, e2)))

Call_avg_spread_bounds ==
    /\ pc = "idle"
    /\ \E xs \in LongSamples, ys \in LongSamples, mr \in Misrates :
           LET checks == avg_spread_bounds_checks(xs, ys, mr)
           IN  IF IsError(checks)
               THEN Done("avg_spread_bounds",
                         [x |-> xs, y |-> ys, misrate |-> mr, seed |-> NoSeed], checks)
               ELSE \E seed \in Seeds, ex \in Roundings :
                        \E ey \in IF Len(xs) = Len(ys) THEN {ex} ELSE Roundings :
                            Done("avg_spread_bounds",
                                 [x |-> xs, y |-> ys, misrate |-> mr, seed |-> seed],
                                 avg_spread_bounds(xs, ys, mr, seed, <<seed, seed>>,
                                                   <<ex, ey>>))

\* disparity_bounds on samples long enough for it to return; the seed is
\* read once the checks have passed.  The two calls of sign_margin_randomized
\* have the same n, misrate and generator, and round alike.
Call_disparity_bounds_seeded ==
    /\ pc = "idle"
    /\ \E xs \in FullSamples, ys \in FullSamples, mr \in Misrates :
           LET checks == disparity_bounds_checks(xs, ys, mr)
           IN  IF IsError(checks)
               THEN Done("disparity_bounds",
                         [x |-> xs, y |-> ys, misrate |-> mr, seed |-> NoSeed], checks)
               ELSE \E seed \in Seeds, e \in Roundings :
                        Done("disparity_bounds",
                             [x |-> xs, y |-> ys, misrate |-> mr, seed |-> seed],
                             disparity_bounds(xs, ys, mr, seed, <<seed, seed>>, <<e, e>>))

Next ==
    \/ Call_center
    \/ Call_spread
    \/ Call_shift
    \/ Call_ratio
    \/ Call_disparity
    \/ Call_shift_bounds
    \/ Call_ratio_bounds
    \/ Call_center_bounds
    \/ Call_spread_bounds
    \/ Call_disparity_bounds
    \/ Call_disparity_bounds_seeded
    \/ Return

Spec == Init /\ [][Next]_vars

\* ------------------------------------------- the assumptions, as defined
Estimators ==
    {"center", "spread", "shift", "ratio", "disparity", "shift_bounds",
     "ratio_bounds", "center_bounds", "spread_bounds", "disparity_bounds"}

TwoSample ==
    {"shift", "ratio", "disparity", "shift_bounds", "ratio_bounds", "disparity_bounds"}

Invalid(s) == Len(s) = 0 \/ \E i \in DOMAIN s : s[i].t = "nan"

NonPositive(s) == \E i \in DOMAIN s : s[i].t = "fin" /\ s[i].v <= 0

\* Spread(s) <= 0 for a valid sample s; a single value has no spread.
TieDominant(s) == ~ Invalid(s) /\ RLe(fast_spread(Nums(s)), Rat0)

MisrateNotInUnitInterval(mr) ==
    mr.t = "nan" \/ RLt(mr.v, RInt(0)) \/ RLt(RInt(1), mr.v)

\* The least misrate the estimator name can achieve on samples of n and m
\* values, where it is defined.
HasMinMisrate(name, n, m) ==
    \/ name \in {"shift_bounds", "ratio_bounds"} /\ n >= 1 /\ m >= 1
    \/ name = "center_bounds" /\ n >= 1
    \/ name = "spread_bounds" /\ n >= 2
    \/ name = "disparity_bounds" /\ n >= 2 /\ m >= 2

MinMisrate(name, n, m) ==
    IF name \in {"shift_bounds", "ratio_bounds"} THEN Rat(2, Comb(n + m, n))
    ELSE IF name = "center_bounds" THEN Rat(2, 2 ^ n)
    ELSE IF name = "spread_bounds" THEN Rat(2, 2 ^ (n \div 2))
    ELSE RAdd(Rat(2, Comb(n + m, n)),
              RMul(RInt(2), RMax(Rat(2, 2 ^ (n \div 2)), Rat(2, 2 ^ (m \div 2)))))

\* The assumptions, as <<kind, subject>>, that the call name(a) violates.
Violations(name, a) ==
    LET two == name \in TwoSample
        n == Len(a.x)
        m == IF two THEN Len(a.y) ELSE 0
    IN  {<<"validity", "x">> : i \in {1} \cap {IF Invalid(a.x) THEN 1 ELSE 0}}
        \cup {<<"validity", "y">> : i \in {1} \cap {IF two /\ Invalid(a.y) THEN 1 ELSE 0}}
        \cup {<<"domain", "misrate">> : i \in {1} \cap
                {IF "misrate" \in DOMAIN a
                    /\ (\/ MisrateNotInUnitInterval(a.misrate)
                        \/ /\ HasMinMisrate(name, n, m)
                           /\ RLt(a.misrate.v, MinMisrate(name, n, m)))
                 THEN 1 ELSE 0}}
        \cup {<<"domain", "x">> : i \in {1} \cap
                {IF name \in {"center_bounds", "spread_bounds", "disparity_bounds"} /\ n < 2
                 THEN 1 ELSE 0}}
        \cup {<<"domain", "y">> : i \in {1} \cap
                {IF name = "disparity_bounds" /\ m < 2 THEN 1 ELSE 0}}
        \cup {<<"positivity", "x">> : i \in {1} \cap
                {IF name \in {"ratio", "ratio_bounds"} /\ NonPositive(a.x) THEN 1 ELSE 0}}
        \cup {<<"positivity", "y">> : i \in {1} \cap
                {IF name \in {"ratio", "ratio_bounds"} /\ NonPositive(a.y) THEN 1 ELSE 0}}
        \cup {<<"sparity", "x">> : i \in {1} \cap
                {IF name \in {"spread", "disparity", "spread_bounds", "disparity_bounds"}
                    /\ TieDominant(a.x)
                 THEN 1 ELSE 0}}
        \cup {<<"sparity", "y">> : i \in {1} \cap
                {IF name \in {"disparity", "disparity_bounds"} /\ TieDominant(a.y)
                 THEN 1 ELSE 0}}

ViolatedKinds(name, a) == {v[1] : v \in Violations(name, a)}

EstimatorReturned == pc = "returned" /\ op \in Estimators

\* C1: a call of a public estimator that violates assumptions raises the
\* AssumptionError of the violated kind that comes first in the order validity,
\* domain, positivity, sparity; no kind is reported while a kind of higher
\* priority is violated.
C1_HighestPriorityKindReported ==
    EstimatorReturned =>
        LET kinds == ViolatedKinds(op, args)
        IN  /\ kinds # {} => IsError(res)
            /\ IsError(res) =>
                   /\ res.kind \in kinds
                   /\ \A k \in kinds : Priority(res.kind) <= Priority(k)

\* ratio_bounds on a sample that is not positive with a misrate that is out
\* of its domain: two kinds violated at once, the domain one reported.
C1_SeveralKindsViolated ==
    /\ pc = "returned" /\ op = "ratio_bounds"
    /\ {"domain", "positivity"} \subseteq ViolatedKinds(op, args)
    /\ IsError(res) /\ res.kind = "domain"

TwoSampleReturned == pc = "returned" /\ op \in TwoSample

C3_ShortSampleFailsSparity ==
    (/\ pc = "returned" /\ op = "spread_bounds"
     /\ ~ Invalid(args.x) /\ Len(args.x) < 2
     /\ ~ MisrateNotInUnitInterval(args.misrate))
    => IsError(res) /\ res.kind = "sparity" /\ res.subject = "x"

\* The misrate is NaN, outside [0, 1] or below the least the estimator can
\* achieve on valid samples of these sizes.
C7_Case ==
    /\ pc = "returned"
    /\ \/ /\ op \in {"shift_bounds", "ratio_bounds"}
          /\ ~ Invalid(args.x) /\ ~ Invalid(args.y)
          /\ \/ MisrateNotInUnitInterval(args.misrate)
             \/ RLt(args.misrate.v, Rat(2, Comb(Len(args.x) + Len(args.y), Len(args.x))))
       \/ /\ op = "center_bounds"
          /\ ~ Invalid(args.x) /\ Len(args.x) >= 2
          /\ \/ MisrateNotInUnitInterval(args.misrate)
             \/ RLt(args.misrate.v, Rat(2, 2 ^ Len(args.x)))

NextBounds ==
    \/ Call_shift_bounds
    \/ Call_ratio_bounds
    \/ Call_center_bounds_pair
    \/ Call_spread_bounds_pair
    \/ Call_avg_spread_bounds
    \/ Call_disparity_bounds_seeded
    \/ Return

SpecBounds == Init /\ [][NextBounds]_vars

\* The intervals a call has returned.
IntervalsReturned ==
    IF pc # "returned" THEN {}
    ELSE IF res.status = "bounds" THEN {res}
    ELSE IF res.status = "pair"
         THEN {b \in {res.first, res.second} : b.status = "bounds"}
    ELSE {}

\* lower <= upper, for plain floats, floats of log space and reals.
LowerLeUpper(b) ==
    IF "t" \in DOMAIN b.lower THEN NumLe(b.lower, b.upper) ELSE RLe(b.lower, b.upper)

\* C6: every interval returned by shift_bounds, ratio_bounds, center_bounds,
\* spread_bounds, disparity_bounds and _avg_spread_bounds has lower <= upper.
C6_LowerAtMostUpper ==
    /\ \A b \in IntervalsReturned : LowerLeUpper(b)
    /\ pc = "returned" => res.status # "crash"

\* disparity_bounds has returned an interval of two different finite ends.
C6_DisparityIntervalReturned ==
    /\ pc = "returned" /\ op = "disparity_bounds" /\ res.status = "bounds"
    /\ res.lower.d # 0 /\ res.upper.d # 0
    /\ res.lower # res.upper

BothReturned(name) ==
    /\ pc = "returned" /\ op = name
    /\ res.first.status = "bounds" /\ res.second.status = "bounds"

\* [a.lower, a.upper] contains [b.lower, b.upper].
Contains(a, b) == RLe(a.lower, b.lower) /\ RLe(b.upper, a.upper)

\* The ranks center_bounds takes from the margin of misrate mr.
C8_Ranks(n, mr) ==
    LET total_pairs == (n * (n + 1)) \div 2
        half_margin == Min2(signed_rank_margin(n, mr, NoEdgeworth).value \div 2,
                            (total_pairs - 1) \div 2)
    IN  [k_left |-> half_margin + 1, k_right |-> total_pairs - half_margin]

MaxN == 4
MaxW == 4
CdfSteps == 3

Call_signed_rank_margin ==
    /\ pc = "idle"
    /\ \E n \in 0..MaxN, mr \in Misrates :
           Done("signed_rank_margin", [n |-> n, misrate |-> mr],
                signed_rank_margin(n, mr, NoEdgeworth))

Call_sign_margin_randomized ==
    /\ pc = "idle"
    /\ \E n \in 0..MaxN, mr \in Misrates, seed \in Seeds, e \in Roundings :
           Done("sign_margin_randomized", [n |-> n, misrate |-> mr, seed |-> seed],
                sign_margin_randomized(n, mr, RngNew(seed), e))

\* The non-decreasing tables cdf[0..max_w] with values j/CdfSteps.
CdfTables(max_w) ==
    {[w \in 0..max_w |-> Rat(f[w], CdfSteps)] :
        f \in {g \in [0..max_w -> 0..CdfSteps] :
                  \A w \in 0..(max_w - 1) : g[w] <= g[w + 1]}}

\* The search of _signed_rank_margin_exact_raw and the search of
\* _signed_rank_margin_approx_raw, each run on the table cdf and the target p.
Call_margin_search ==
    /\ pc = "idle"
    /\ \E max_w \in 1..MaxW, k \in 0..MisDen :
           \E cdf \in CdfTables(max_w) :
               LET p == HalfMis(Mis(k))
               IN  Done("margin_search", [cdf |-> cdf, max_w |-> max_w, p |-> p],
                        [status |-> "searched",
                         exact |-> ScanCdf(cdf, p, 0, max_w),
                         approx |-> signed_rank_margin_approx_raw(cdf, max_w, p)])

NextMargin ==
    \/ Call_signed_rank_margin
    \/ Call_sign_margin_randomized
    \/ Call_margin_search
    \/ Return

SpecMargin == Init /\ [][NextMargin]_vars

\* ------------------------------------------------- the margins, as defined
RECURSIVE SetSum(_)
SetSum(S) == IF S = {} THEN 0 ELSE LET e == CHOOSE e \in S : TRUE IN e + SetSum(S \ {e})

\* P(W <= w) for W the sum of a uniformly random subset of {1..n}.
WilcoxonCdf(n, w) ==
    Rat(Cardinality({S \in SUBSET (1..n) : SetSum(S) <= w}), 2 ^ n)

RECURSIVE BinomialCum(_, _)
BinomialCum(n, r) == IF r < 0 THEN 0 ELSE BinomialCum(n, r - 1) + Comb(n, r)

\* The CDF and the PMF of Binomial(n, 1/2).
BinomialCdf(n, r) == Rat(BinomialCum(n, r), 2 ^ n)

BinomialPmf(n, r) == Rat(Comb(n, r), 2 ^ n)

\* misrate is a number of [2^(1-n), 1].
MisrateAccepted(n, mr) ==
    mr.t = "fin" /\ RLe(Rat(2, 2 ^ n), mr.v) /\ RLe(mr.v, RInt(1))

C4_Case ==
    /\ pc = "returned" /\ op = "signed_rank_margin"
    /\ 1 <= args.n /\ args.n <= SIGNED_RANK_MAX_EXACT_SIZE
    /\ MisrateAccepted(args.n, args.misrate)

\* The largest w of 0..n(n+1)/2 with P(W <= w) <= misrate/2.
C4_LargestRank ==
    LET n == args.n
        target == HalfMis(args.misrate)
        within == {w \in 0..((n * (n + 1)) \div 2) : RLe(WilcoxonCdf(n, w), target)}
    IN  CHOOSE w \in within : \A v \in within : v <= w

\* C4: for 1 <= n <= 63 and misrate in [2^(1-n), 1], signed_rank_margin(n,
\* misrate) is 2*h, h the largest w with P(W <= w) <= misrate/2 under the exact
\* Wilcoxon signed-rank null distribution.
C4_MarginIsLargestRankWithinTarget ==
    C4_Case => res.status = "value" /\ res.value = 2 * C4_LargestRank

C5_Case ==
    /\ pc = "returned" /\ op = "sign_margin_randomized"
    /\ args.n >= 1
    /\ MisrateAccepted(args.n, args.misrate)

\* The largest r with BinomialCDF(n, 1/2)(r) <= misrate/2.
C5_RLow ==
    LET n == args.n
        within == {r \in 0..n : RLe(BinomialCdf(n, r), HalfMis(args.misrate))}
    IN  CHOOSE r \in within : \A q \in within : q <= r

\* p = (misrate/2 - CDF(r_low)) / PMF(r_low + 1)
C5_P ==
    RDiv(RSub(HalfMis(args.misrate), BinomialCdf(args.n, C5_RLow)),
         BinomialPmf(args.n, C5_RLow + 1))

\* The uniform draw the call makes from the generator it is given.
C5_U == RngUniform(RngNew(args.seed)).value

\* p is in [0, 1) and (1-p)*CDF(r_low) + p*CDF(r_low+1) = misrate/2.
C5_ExpectedTailIsTarget ==
    /\ C5_RLow < args.n
    /\ RLe(Rat0, C5_P) /\ RLt(C5_P, RInt(1))
    /\ RAdd(RMul(RSub(RInt(1), C5_P), BinomialCdf(args.n, C5_RLow)),
            RMul(C5_P, BinomialCdf(args.n, C5_RLow + 1)))
       = HalfMis(args.misrate)

\* C5: for n >= 1 and misrate in [2^(1-n), 1],
\* sign_margin_randomized returns 2*(r_low+1) exactly when the uniform draw u
\* is below p, and 2*r_low otherwise, where r_low is the largest r with
\* BinomialCDF(r) <= misrate/2 and p = (misrate/2 - CDF(r_low)) / PMF(r_low+1);
\* p is in [0, 1) and (1-p)*CDF(r_low) + p*CDF(r_low+1) = misrate/2.
C5_RandomizesBetweenNearestMargins ==
    C5_Case =>
        /\ res.status = "value"
        /\ res.value = IF RLt(C5_U, C5_P) THEN 2 * (C5_RLow + 1) ELSE 2 * C5_RLow
        /\ C5_ExpectedTailIsTarget

\* C10: on the same non-decreasing CDF over w = 0..max_w and the same target,
\* the linear scan of _signed_rank_margin_exact_raw and the binary search of
\* _signed_rank_margin_approx_raw return the same w.
C10_SearchesAgree ==
    pc = "returned" /\ op = "margin_search" => res.exact = res.approx

\* ------------------------------------------------------------------ Sample
\* measurement_unit.py: a unit is its id, its family and its base_units
\* (abbreviation and full_name are for display).
MeasurementUnit(id, family, base_units) ==
    [id |-> id, family |-> family, base_units |-> base_units]

NUMBER_UNIT == MeasurementUnit("number", "Number", 1)

\* Two units of one family that a caller has defined, one twice the other.
UnitFine == MeasurementUnit("fine", "Scale", 1)
UnitCoarse == MeasurementUnit("coarse", "Scale", 2)

Units == {NUMBER_UNIT, UnitFine, UnitCoarse}

\* The unit the caller makes Samples in.  Samples of the other units come of
\* convert_to and log.
GivenUnits == {UnitCoarse}

is_compatible(a, b) == a.family = b.family

\* from_unit.base_units / to_unit.base_units, as numerator and denominator.
conversion_factor(from_unit, to_unit) == <<from_unit.base_units, to_unit.base_units>>

\* weights=None, and the array that is not there.
None == <<[t |-> "None", v |-> 0]>>
NoArray == 0

\* AssumptionError(msg): violation is None.
RaiseMessage == [status |-> "error", kind |-> "None", subject |-> "None", calls |-> NoCalls]

\* A Sample that a call has returned: its place among the samples.
Ref(i) == [status |-> "sample", ref |-> i]

\* Float arithmetic on the values of an array: NaN and the infinities give
\* NaN (or an infinity, which the model does not tell from NaN).
TimesE(e, k) == IF e.t = "nan" \/ k.t = "nan" THEN NaN ELSE Fin(e.v * k.v)

PlusE(e, k) == IF e.t = "nan" \/ k.t = "nan" THEN NaN ELSE Fin(e.v + k.v)

NegE(k) == IF k.t = "nan" THEN NaN ELSE Fin(0 - k.v)

ScaleE(e, factor) == IF e.t = "nan" THEN NaN ELSE Fin((e.v * factor[1]) \div factor[2])

LogE(e) == IF e.t = "nan" THEN NaN ELSE LogOf(RInt(e.v))

\* np.sum(w)
RECURSIVE SumE(_)
SumE(w) == IF Len(w) = 0 THEN Fin(0) ELSE PlusE(w[1], SumE(Tail(w)))

\* a <= b in the order of np.sort: NaN goes last.
SortLe(a, b) ==
    IF b.t = "nan" THEN TRUE
    ELSE IF a.t = "nan" THEN FALSE
    ELSE NumLe(a, b)

\* np.sort(values): a new array.
NpSort(s) ==
    [k \in 1..Len(s) |->
        CHOOSE e \in {s[i] : i \in DOMAIN s} :
            /\ Cardinality({i \in DOMAIN s : SortLe(s[i], e) /\ s[i] # e}) < k
            /\ k <= Cardinality({i \in DOMAIN s : SortLe(s[i], e)})] \o <<>>

\* The heap: the numpy arrays and the Sample objects made so far.  H stands
\* for the heap a call starts on; a call gives back the heap it leaves and
\* what it returns or raises.
Heap(arrs, objs) == [arrays |-> arrs, samples |-> objs]

Outcome(H, r) == [arrays |-> H.arrays, samples |-> H.samples, res |-> r]

\* A new array holding a: the heap with it, and its place.
NewArray(H, a) == <<Heap(Append(H.arrays, a), H.samples), Len(H.arrays) + 1>>

\* self._values += scalar: the sum written into the array itself.
ArrayPlus_in_place(H, aid, k) ==
    <<Heap([H.arrays EXCEPT ![aid] = [i \in DOMAIN H.arrays[aid] |-> PlusE(H.arrays[aid][i], k)] \o <<>>],
           H.samples), aid>>

\* self._values * scalar and self._values + scalar: a new array.
ArrayTimes(H, aid, k) == NewArray(H, [i \in DOMAIN H.arrays[aid] |-> TimesE(H.arrays[aid][i], k)] \o <<>>)

ArrayPlus(H, aid, k) == NewArray(H, [i \in DOMAIN H.arrays[aid] |-> PlusE(H.arrays[aid][i], k)] \o <<>>)

\* self._weights.copy() if self._weights is not None else None
CopyWeights(H, aid) == IF aid = NoArray THEN <<H, NoArray>> ELSE NewArray(H, H.arrays[aid])

\* _build_sample: a Sample of the given fields, no validation.
build_sample(H, values, unit, subject, is_weighted, total_weight, weighted_size, weights) ==
    Outcome(Heap(H.arrays,
                 Append(H.samples,
                        [values |-> values, unit |-> unit, subject |-> subject,
                         is_weighted |-> is_weighted, total_weight |-> total_weight,
                         weighted_size |-> weighted_size, weights |-> weights,
                         sorted_values |-> NoArray])),
            Ref(Len(H.samples) + 1))

\* (total * total) / np.sum(w * w)
WeightedSize(w, total) ==
    The({IF sq.t = "nan" \/ total.t = "nan" THEN NaN
         ELSE [t |-> "real", v |-> Rat(total.v * total.v, sq.v)] :
            sq \in {SumE([i \in DOMAIN w |-> TimesE(w[i], w[i])] \o <<>>)}})

\* Sample.__init__ (lines 18-55).
Sample_init(H, values, weights, unit, subject) ==
    LET v == check_validity(values, subject)
    IN  IF IsError(v) THEN Outcome(H, v)
        ELSE IF weights = None
        THEN The({build_sample(hv[1], hv[2], unit, subject, FALSE, Fin(1),
                               Fin(Len(values)), NoArray) :
                     hv \in {NewArray(H, values)}})
        ELSE IF Len(weights) # Len(values) THEN Outcome(H, Crash("ValueError"))
        ELSE IF \E i \in DOMAIN weights : weights[i].t = "fin" /\ weights[i].v < 0
             THEN Outcome(H, Crash("ValueError"))
        ELSE The({IF total.t = "fin" /\ total.v <= 0 THEN Outcome(H, Crash("ValueError"))
                  ELSE The({build_sample(hw[1], hv[2], unit, subject, TRUE, total,
                                         WeightedSize(weights, total), hw[2]) :
                               hw \in {NewArray(hv[1], weights)}}) :
                     total \in {SumE(weights)}, hv \in {NewArray(H, values)}})

\* Sample.sorted_values: np.sort once, kept on the object.
Sample_sorted_values(H, i) ==
    IF H.samples[i].sorted_values # NoArray
    THEN Outcome(H, [status |-> "array", ref |-> H.samples[i].sorted_values])
    ELSE The({Outcome(Heap(hs[1].arrays,
                           [hs[1].samples EXCEPT ![i].sorted_values = hs[2]]),
                      [status |-> "array", ref |-> hs[2]]) :
                 hs \in {NewArray(H, NpSort(H.arrays[H.samples[i].values]))}})

\* Sample.convert_to
Sample_convert_to(H, i, target) ==
    LET self == H.samples[i]
    IN  IF ~ is_compatible(self.unit, target) THEN Outcome(H, RaiseMessage)
        ELSE IF self.unit = target THEN Outcome(H, Ref(i))
        ELSE The({The({build_sample(hw[1], hv[2], target, self.subject, self.is_weighted,
                                    self.total_weight, self.weighted_size, hw[2]) :
                          hw \in {CopyWeights(hv[1], self.weights)}}) :
                     hv \in {NewArray(H, [k \in DOMAIN H.arrays[self.values] |->
                                             ScaleE(H.arrays[self.values][k],
                                                    conversion_factor(self.unit, target))]
                                         \o <<>>)}})

\* Sample.log
Sample_log(H, i) ==
    LET self == H.samples[i]
        p == check_positivity(H.arrays[self.values], self.subject)
    IN  IF IsError(p) THEN Outcome(H, p)
        ELSE The({The({build_sample(hw[1], hv[2], NUMBER_UNIT, self.subject,
                                    self.is_weighted, self.total_weight,
                                    self.weighted_size, hw[2]) :
                          hw \in {CopyWeights(hv[1], self.weights)}}) :
                     hv \in {NewArray(H, [k \in DOMAIN H.arrays[self.values] |->
                                             LogE(H.arrays[self.values][k])] \o <<>>)}})

\* Sample._with_subject: the same arrays under another subject.
Sample_with_subject(H, i, subject) ==
    LET self == H.samples[i]
    IN  build_sample(H, self.values, self.unit, subject, self.is_weighted,
                     self.total_weight, self.weighted_size, self.weights)

\* isinstance(scalar, (int, float))
IsNumber(scalar) == scalar.t \in {"fin", "nan"}

NotImplemented == [status |-> "value", value |-> "NotImplemented", calls |-> NoCalls]

\* Sample.__mul__
Sample_mul(H, i, scalar) ==
    LET self == H.samples[i]
    IN  IF ~ IsNumber(scalar) THEN Outcome(H, NotImplemented)
        ELSE The({build_sample(hv[1], hv[2], self.unit, self.subject, self.is_weighted,
                               self.total_weight, self.weighted_size, self.weights) :
                     hv \in {ArrayTimes(H, self.values, scalar)}})

\* Sample.__add__
Sample_add(H, i, scalar) ==
    LET self == H.samples[i]
    IN  IF ~ IsNumber(scalar) THEN Outcome(H, NotImplemented)
        ELSE The({build_sample(hv[1], hv[2], self.unit, self.subject, self.is_weighted,
                               self.total_weight, self.weighted_size, self.weights) :
                     hv \in {ArrayPlus(H, self.values, scalar)}})

\* Sample.__sub__
Sample_sub(H, i, scalar) ==
    IF ~ IsNumber(scalar) THEN Outcome(H, NotImplemented)
    ELSE Sample_add(H, i, NegE(scalar))

\* _check_non_weighted
check_non_weighted(H, i) ==
    IF H.samples[i].is_weighted THEN RaiseMessage ELSE Passed

\* _check_compatible_units raising a violation of the first sample's domain.
check_compatible_units_typed(H, i, j) ==
    IF ~ is_compatible(H.samples[i].unit, H.samples[j].unit)
    THEN Raise("domain", H.samples[i].subject) ELSE Passed

\* _check_compatible_units
check_compatible_units(H, i, j) ==
    IF ~ is_compatible(H.samples[i].unit, H.samples[j].unit) THEN RaiseMessage ELSE Passed

\* ------------------------------------------------------ calls on Samples
MaxSamples == 2

\* What the caller passes for values: nothing, a value that is not finite,
\* values with a zero among them, positive values out of order.
ValueLists == {<<>>, <<Fin(1), NaN>>, <<Fin(2), Fin(0)>>, <<Fin(4), Fin(2)>>}

\* n weights w.
Const(w, n) == [i \in 1..n |-> w] \o <<>>

\* What the caller passes for the weights: none, or weights for values that
\* are valid (the values are checked first).
WeightLists(values) ==
    IF IsError(check_validity(values, "x")) THEN {None}
    ELSE {None, Const(Fin(1), Len(values)), Const(Fin(1), Len(values) + 1),
          Const(Fin(0), Len(values)), Const(Fin(0 - 1), Len(values)),
          Const(NaN, Len(values))}

\* A scalar: an int, a float (nan and the infinities among them), a str.
Scalars == {Fin(2), NaN, [t |-> "str", v |-> 0]}

TheHeap == Heap(arrays, samples)

\* The call is made when the heap has room for what it leaves.
DoneOn(name, a, out) ==
    /\ Len(out.samples) <= MaxSamples
    /\ pc' = "returned" /\ op' = name /\ args' = a /\ res' = out.res
    /\ arrays' = out.arrays /\ samples' = out.samples
    /\ UNCHANGED registry

\* The values of sample i are plain numbers, none of them a logarithm.
Plain(i) == \A k \in DOMAIN arrays[samples[i].values] : arrays[samples[i].values][k].t # "log"

\* The factor takes the values of sample i to whole numbers.
Exact(i, target) ==
    \A k \in DOMAIN arrays[samples[i].values] :
        LET e == arrays[samples[i].values][k]
        IN  e.t = "fin" => (e.v * samples[i].unit.base_units) % target.base_units = 0

Call_Sample ==
    /\ pc = "idle"
    /\ \E values \in ValueLists, unit \in GivenUnits :
           \E weights \in WeightLists(values) :
               DoneOn("Sample", [values |-> values, weights |-> weights, unit |-> unit],
                      Sample_init(TheHeap, values, weights, unit, "x"))

Call_sorted_values ==
    /\ pc = "idle"
    /\ \E i \in DOMAIN samples :
           DoneOn("sorted_values", [self |-> i], Sample_sorted_values(TheHeap, i))

Call_convert_to ==
    /\ pc = "idle"
    /\ \E i \in DOMAIN samples, target \in Units :
           /\ Plain(i) /\ Exact(i, target)
           /\ DoneOn("convert_to", [self |-> i, target |-> target],
                     Sample_convert_to(TheHeap, i, target))

Call_log ==
    /\ pc = "idle"
    /\ \E i \in DOMAIN samples :
           /\ Plain(i)
           /\ DoneOn("log", [self |-> i], Sample_log(TheHeap, i))

Call_with_subject ==
    /\ pc = "idle"
    /\ \E i \in DOMAIN samples, subject \in {"x", "y"} :
           DoneOn("_with_subject", [self |-> i, subject |-> subject],
                  Sample_with_subject(TheHeap, i, subject))

Call_mul ==
    /\ pc = "idle"
    /\ \E i \in DOMAIN samples, scalar \in Scalars :
           /\ Plain(i)
           /\ DoneOn("__mul__", [self |-> i, scalar |-> scalar],
                     Sample_mul(TheHeap, i, scalar))

Call_add ==
    /\ pc = "idle"
    /\ \E i \in DOMAIN samples, scalar \in Scalars :
           /\ Plain(i)
           /\ DoneOn("__add__", [self |-> i, scalar |-> scalar],
                     Sample_add(TheHeap, i, scalar))

Call_sub ==
    /\ pc = "idle"
    /\ \E i \in DOMAIN samples, scalar \in Scalars :
           /\ Plain(i)
           /\ DoneOn("__sub__", [self |-> i, scalar |-> scalar],
                     Sample_sub(TheHeap, i, scalar))

Call_check_non_weighted ==
    /\ pc = "idle"
    /\ \E i \in DOMAIN samples :
           DoneOn("_check_non_weighted", [s |-> i],
                  Outcome(TheHeap, check_non_weighted(TheHeap, i)))

Call_check_compatible_units ==
    /\ pc = "idle"
    /\ \E i \in DOMAIN samples, j \in DOMAIN samples :
           /\ i < j
           /\ DoneOn("_check_compatible_units", [a |-> i, b |-> j],
                     Outcome(TheHeap, check_compatible_units(TheHeap, i, j)))

NextSample ==
    \/ Call_Sample
    \/ Call_sorted_values
    \/ Call_convert_to
    \/ Call_log
    \/ Call_with_subject
    \/ Call_mul
    \/ Call_add
    \/ Call_sub
    \/ Call_check_non_weighted
    \/ Call_check_compatible_units
    \/ Return

SpecSample == Init /\ [][NextSample]_vars

\* ------------------------------------------------- the claims on Samples
Subjects == {"x", "y", "misrate"}

KindSet == {Kinds[i] : i \in DOMAIN Kinds}

AssumptionErrorRaised == pc = "returned" /\ res.status = "error"

\* C11, as stated: every AssumptionError the library raises carries a
\* Violation of one kind of validity, domain, positivity, sparity and one
\* subject of x, y, misrate; none reaches the caller with violation = None.
C11_EveryErrorCarriesAViolation ==
    AssumptionErrorRaised => res.kind \in KindSet /\ res.subject \in Subjects

\* The calls that raise AssumptionError(msg).
MessageRaisers == {"convert_to", "_check_non_weighted", "_check_compatible_units"}

\* C11, amended: an AssumptionError raised by an assumption check carries a
\* Violation of one kind and one subject; the AssumptionErrors that
\* convert_to, _check_non_weighted and _check_compatible_units raise for
\* incompatible units and weighted samples carry a message and violation =
\* None.
C11_ViolationUnlessUnitOrWeightCheck ==
    AssumptionErrorRaised =>
        IF op \in MessageRaisers
        THEN res.kind = "None" /\ res.subject = "None"
        ELSE res.kind \in KindSet /\ res.subject \in Subjects

\* log has raised positivity on a sample that was given the subject y.
C11_LogRaisedPositivityOfY ==
    /\ AssumptionErrorRaised /\ op = "log"
    /\ res.kind = "positivity" /\ res.subject = "y"

\* The values and the weights of a Sample, read through its arrays.
ValuesOf(arrs, s) == arrs[s.values]

WeightsOf(arrs, s) == IF s.weights = NoArray THEN None ELSE arrs[s.weights]

\* C12: every Sample that exists has a non-empty array of finite values and,
\* if it is weighted, as many weights, none negative, of positive total.
C12_SamplesStayValid ==
    \A i \in DOMAIN samples :
        LET v == ValuesOf(arrays, samples[i])
            w == WeightsOf(arrays, samples[i])
        IN  /\ Len(v) > 0
            /\ \A k \in DOMAIN v : v[k].t # "nan"
            /\ samples[i].is_weighted =>
                   /\ Len(w) = Len(v)
                   /\ \A k \in DOMAIN w : w[k].t = "fin" /\ w[k].v >= 0
                   /\ SumE(w).t = "fin" /\ SumE(w).v > 0

\* What C13 says stays: values, weights, unit and subject.
SampleView(arrs, s) ==
    [values |-> ValuesOf(arrs, s), weights |-> WeightsOf(arrs, s),
     unit |-> s.unit, subject |-> s.subject]

\* C13: no operation of a Sample changes the values, weights, unit or subject
\* of a Sample that exists; convert_to a different compatible unit and log
\* return a Sample that did not exist before.
C13_SamplesNeverChange ==
    [][/\ \A i \in DOMAIN samples :
             /\ i \in DOMAIN samples'
             /\ SampleView(arrays', samples'[i]) = SampleView(arrays, samples[i])
       /\ (/\ op' \in {"convert_to", "log"} /\ res'.status = "sample"
           /\ (op' = "convert_to" => args'.target # samples[args'.self].unit))
              => res'.ref \notin DOMAIN samples]_vars

\* convert_to has returned a new Sample whose values are not the receiver's.
C13_ConvertedIntoNewSample ==
    /\ pc = "returned" /\ op = "convert_to" /\ res.status = "sample"
    /\ res.ref # args.self
    /\ ValuesOf(arrays, samples[res.ref]) # ValuesOf(arrays, samples[args.self])
    /\ samples[res.ref].unit = args.target
    /\ samples[args.self].unit # args.target

\* ------------------------------------------- disparity_bounds, its rates
\* min_shift = 2/C(n+m, n) and min_avg = 2*max(2^(1-n\div 2), 2^(1-m\div 2)).
C14_MinShift(n, m) == Rat(2, Comb(n + m, n))

C14_MinAvg(n, m) == RMul(RInt(2), RMax(Rat(2, 2 ^ (n \div 2)), Rat(2, 2 ^ (m \div 2))))

\* disparity_bounds has ended on valid samples of two values or more and a
\* misrate of [0, 1] that is not below min_shift + min_avg.
C14_Case ==
    /\ pc = "returned" /\ op = "disparity_bounds"
    /\ ~ Invalid(args.x) /\ ~ Invalid(args.y)
    /\ Len(args.x) >= 2 /\ Len(args.y) >= 2
    /\ ~ MisrateNotInUnitInterval(args.misrate)
    /\ RLe(RAdd(C14_MinShift(Len(args.x), Len(args.y)), C14_MinAvg(Len(args.x), Len(args.y))),
           args.misrate.v)

NotADomainError(r) == ~ (r.status = "error" /\ r.kind = "domain")

\* C14: for every accepted misrate, alpha_shift = min_shift + e/2 and
\* alpha_avg = min_avg + e/2 with e = misrate - (min_shift + min_avg) >= 0;
\* the two rates add up to the misrate, each is at least the minimum of its
\* component and at most 1, and no nested call (shift_bounds,
\* _avg_spread_bounds, spread_bounds) raises a domain error.
C14_ExcessSplitInHalves ==
    C14_Case =>
        \E n \in {Len(args.x)}, m \in {Len(args.y)} :
        \E split \in {DisparitySplit(n, m, args.misrate)} :
        \E half \in {MisOf(RMul(split.alpha_avg, Rat(1, 2)))} :
            /\ split.min_shift = C14_MinShift(n, m)
            /\ split.min_avg = C14_MinAvg(n, m)
            /\ split.extra = RSub(args.misrate.v, RAdd(split.min_shift, split.min_avg))
            /\ RLe(Rat0, split.extra)
            /\ split.alpha_shift = RAdd(split.min_shift, RMul(split.extra, Rat(1, 2)))
            /\ split.alpha_avg = RAdd(split.min_avg, RMul(split.extra, Rat(1, 2)))
            /\ RAdd(split.alpha_shift, split.alpha_avg) = args.misrate.v
            /\ RLe(split.min_shift, split.alpha_shift) /\ RLe(split.alpha_shift, RInt(1))
            /\ RLe(split.min_avg, split.alpha_avg) /\ RLe(split.alpha_avg, RInt(1))
            /\ RLe(Rat(2, 2 ^ (n \div 2)), half.v) /\ RLe(Rat(2, 2 ^ (m \div 2)), half.v)
            /\ NotADomainError(shift_bounds(args.x, args.y, MisOf(split.alpha_shift)))
            /\ NotADomainError(avg_spread_bounds_checks(args.x, args.y, MisOf(split.alpha_avg)))
            /\ NotADomainError(spread_bounds_checks(args.x, half))
            /\ NotADomainError(spread_bounds_checks(args.y, half))
            /\ NotADomainError(res)

\* disparity_bounds has returned an interval on a misrate with an excess over
\* the two minimums.
C14_ExcessShared ==
    /\ C14_Case /\ res.status = "bounds"
    /\ RLt(RAdd(C14_MinShift(Len(args.x), Len(args.y)), C14_MinAvg(Len(args.x), Len(args.y))),
           args.misrate.v)
    /\ RLt(args.misrate.v, RInt(1))

\* ------------------------------------- disparity_bounds, the case analysis
\* The bounds sb and ab that the case analysis of disparity_bounds is given:
\* multiples of 1/GridDen up to GridMax in size.
GridMax == 2

GridDen == 2

ShiftEnds == {Rat(k, GridDen) : k \in (0 - GridMax * GridDen)..(GridMax * GridDen)}

SpreadEnds == {Rat(k, GridDen) : k \in 0..(GridMax * GridDen)}

\* Lines 573-606 of disparity_bounds on shift bounds [ls, us], ls <= us, and
\* avg-spread bounds [la, ua], 0 <= la <= ua.
Call_disparity_interval ==
    /\ pc = "idle"
    /\ \E ls \in ShiftEnds, us \in ShiftEnds, la \in SpreadEnds, ua \in SpreadEnds :
           /\ RLe(ls, us) /\ RLe(la, ua)
           /\ \E iv \in {disparity_interval(ls, us, la, ua)} :
                  Done("disparity_interval", [ls |-> ls, us |-> us, la |-> la, ua |-> ua],
                       [status |-> "bounds", lower |-> iv[1], upper |-> iv[2]])

NextInterval == Call_disparity_interval \/ Return

SpecInterval == Init /\ [][NextInterval]_vars

CornerQuotients(a) ==
    {RDiv(a.ls, a.la), RDiv(a.ls, a.ua), RDiv(a.us, a.la), RDiv(a.us, a.ua)}

\* C15: the interval of the case analysis contains s/a for every s of
\* [ls, us] and every a > 0 of [la, ua], and for la > 0 its ends are the
\* least and the greatest of ls/la, ls/ua, us/la, us/ua.
C15_IntervalDivision ==
    (pc = "returned" /\ op = "disparity_interval") =>
        /\ \A s \in ShiftEnds, a \in SpreadEnds :
               (/\ RLe(args.ls, s) /\ RLe(s, args.us)
                /\ RLe(args.la, a) /\ RLe(a, args.ua) /\ RLt(Rat0, a))
                   => (RLe(res.lower, RDiv(s, a)) /\ RLe(RDiv(s, a), res.upper))
        /\ RLt(Rat0, args.la) =>
               /\ res.lower \in CornerQuotients(args)
               /\ res.upper \in CornerQuotients(args)
               /\ \A q \in CornerQuotients(args) : RLe(res.lower, q) /\ RLe(q, res.upper)

\* The case analysis has divided a shift interval of positive ends by an
\* avg-spread interval of two different positive ends: the lower end of the
\* result is ls/ua and the upper one us/la.
C15_PositiveByPositive ==
    /\ pc = "returned" /\ op = "disparity_interval"
    /\ RLt(Rat0, args.ls) /\ RLt(args.ls, args.us)
    /\ RLt(Rat0, args.la) /\ RLt(args.la, args.ua)
    /\ res.lower = RDiv(args.ls, args.ua) /\ res.upper = RDiv(args.us, args.la)

\* ------------------------------------------------------ the seed argument
\* What a call that builds Rng() would seed it with: the clock and whatever
\* earlier calls have left in the process.  It differs from call to call:
\* the second call finds the next one.
Entropies == {h \in Seeds \X Seeds : h[2] = (h[1] + 1) % (MaxSeed + 1)}

SeedArgs == Seeds \cup {NoSeed}

\* spread_bounds(x, misrate, seed) called twice in a row.
Call_spread_bounds_twice ==
    /\ pc = "idle"
    /\ \E xs \in LongSamples, mr \in Misrates, seed \in SeedArgs :
           LET a == [x |-> xs, misrate |-> mr, seed |-> seed]
               checks == spread_bounds_checks(xs, mr)
           IN  IF IsError(checks) THEN Done("spread_bounds_twice", a, Pair(checks, checks))
               ELSE \E h \in Entropies, e \in Roundings :
                        Done("spread_bounds_twice", a,
                             Pair(spread_bounds(xs, mr, seed, h[1], e),
                                  spread_bounds(xs, mr, seed, h[2], e)))

\* _avg_spread_bounds(x, y, misrate, seed) called twice in a row.
Call_avg_spread_bounds_twice ==
    /\ pc = "idle"
    /\ \E xs \in FullSamples, ys \in FullSamples, mr \in Misrates, seed \in SeedArgs :
           LET a == [x |-> xs, y |-> ys, misrate |-> mr, seed |-> seed]
               checks == avg_spread_bounds_checks(xs, ys, mr)
           IN  IF IsError(checks)
               THEN Done("avg_spread_bounds_twice", a, Pair(checks, checks))
               ELSE \E h \in Entropies, e \in Roundings :
                        Done("avg_spread_bounds_twice", a,
                             Pair(avg_spread_bounds(xs, ys, mr, seed, <<h[1], h[1]>>, <<e, e>>),
                                  avg_spread_bounds(xs, ys, mr, seed, <<h[2], h[2]>>, <<e, e>>)))

\* disparity_bounds(x, y, misrate, seed) called twice in a row.
Call_disparity_bounds_twice ==
    /\ pc = "idle"
    /\ \E xs \in FullSamples, ys \in FullSamples, mr \in Misrates, seed \in SeedArgs :
           LET a == [x |-> xs, y |-> ys, misrate |-> mr, seed |-> seed]
               checks == disparity_bounds_checks(xs, ys, mr)
           IN  IF IsError(checks)
               THEN Done("disparity_bounds_twice", a, Pair(checks, checks))
               ELSE \E h \in Entropies, e \in Roundings :
                        Done("disparity_bounds_twice", a,
                             Pair(disparity_bounds(xs, ys, mr, seed, <<h[1], h[1]>>, <<e, e>>),
                                  disparity_bounds(xs, ys, mr, seed, <<h[2], h[2]>>, <<e, e>>)))

NextSeed ==
    \/ Call_spread_bounds_twice
    \/ Call_avg_spread_bounds_twice
    \/ Call_disparity_bounds_twice
    \/ Return

SpecSeed == Init /\ [][NextSeed]_vars

TwiceOps == {"spread_bounds_twice", "avg_spread_bounds_twice", "disparity_bounds_twice"}

\* C16: two calls of spread_bounds, _avg_spread_bounds or disparity_bounds
\* with the same samples, misrate and seed (not None) end alike: the same
\* interval, or the same error.
C16_SameSeedSameInterval ==
    (pc = "returned" /\ op \in TwiceOps /\ args.seed # NoSeed) =>
        /\ res.first.status = res.second.status
        /\ res.first.status = "bounds" =>
               /\ res.first.lower = res.second.lower
               /\ res.first.upper = res.second.upper
        /\ res.first.status = "error" => res.first = res.second

\* Two seeded calls of spread_bounds have returned one interval with two
\* different ends.
C16_SeededIntervalTwice ==
    /\ pc = "returned" /\ op = "spread_bounds_twice" /\ args.seed # NoSeed
    /\ res.first.status = "bounds" /\ res.second.status = "bounds"
    /\ res.first.lower = res.second.lower /\ res.first.upper = res.second.upper
    /\ RLt(res.first.lower, res.first.upper)

\* ------------------------------------------------ spread_bounds, its pairs
\* The positions of x that the pairs of a returned spread_bounds hold.
PairedPositions(r) == UNION {{r.pairs[i][1], r.pairs[i][2]} : i \in DOMAIN r.pairs}

\* abs(x[a] - x[b]) of pair i
PairDiff(xs, r, i) == Abs(xs[r.pairs[i][1] + 1].v - xs[r.pairs[i][2] + 1].v)

\* What C17 says of one returned call r of spread_bounds on xs.
C17_Pairing(xs, r) ==
    r.status = "bounds" =>
        /\ Len(r.pairs) = Len(xs) \div 2
        /\ PairedPositions(r) \subseteq 0..(Len(xs) - 1)
        /\ Cardinality(PairedPositions(r)) = 2 * Len(r.pairs)
        /\ Cardinality((0..(Len(xs) - 1)) \ PairedPositions(r)) = Len(xs) % 2
        /\ 1 <= r.k_left /\ r.k_left <= r.k_right /\ r.k_right <= Len(r.pairs)
        /\ \E diffs \in {[i \in DOMAIN r.pairs |-> PairDiff(xs, r, i)]} :
               /\ r.lower = RInt(OrderStat(diffs, r.k_left))
               /\ r.upper = RInt(OrderStat(diffs, r.k_right))

\* C17: spread_bounds makes floor(n/2) pairs of positions, no position is in
\* two of them (one position is left out when n is odd), and the two bounds
\* are order statistics of the absolute differences of the pairs.
C17_DisjointPairsOnly ==
    (pc = "returned" /\ op = "spread_bounds_pair") =>
        /\ C17_Pairing(args.x, res.first)
        /\ C17_Pairing(args.x, res.second)

\* spread_bounds has returned on a sample of an odd number of values, with two
\* different bounds.
C17_OddSamplePaired ==
    /\ pc = "returned" /\ op = "spread_bounds_pair"
    /\ Len(args.x) % 2 = 1
    /\ res.first.status = "bounds"
    /\ RLt(res.first.lower, res.first.upper)

\* ------------------------------------------ ratio_bounds and shift_bounds
\* The samples of finite values from 0 to RatioMax, none of them empty.
RatioMax == 2

RatioSamples == SeqsUpTo({Fin(v) : v \in 0..RatioMax}, MaxLen) \ {<<>>}

\* ratio_bounds(x, y, misrate) on valid samples.
Call_ratio_bounds_valid ==
    /\ pc = "idle"
    /\ \E xs \in RatioSamples, ys \in RatioSamples, mr \in Misrates :
           Done("ratio_bounds", [x |-> xs, y |-> ys, misrate |-> mr],
                ratio_bounds(xs, ys, mr))

NextRatio == Call_ratio_bounds_valid \/ Return

SpecRatio == Init /\ [][NextRatio]_vars

\* np.exp of a float of log space: the rational it is the logarithm of.
NpExp(l) == l.v

\* shift_bounds(log x, log y, misrate), for strictly positive x and y
C18_ShiftBoundsOfLogs == shift_bounds(NpLog(args.x), NpLog(args.y), args.misrate)

\* C18: on valid samples ratio_bounds returns nothing but exp of the two
\* bounds of shift_bounds(log x, log y, misrate); on strictly positive
\* samples it raises exactly when that call raises, and the same violation.
C18_RatioBoundsIsExpOfShiftBounds ==
    (/\ pc = "returned" /\ op = "ratio_bounds"
     /\ ~ Invalid(args.x) /\ ~ Invalid(args.y)) =>
        /\ res.status = "bounds" => ~ NonPositive(args.x) /\ ~ NonPositive(args.y)
        /\ (~ NonPositive(args.x) /\ ~ NonPositive(args.y)) =>
               \E sb \in {C18_ShiftBoundsOfLogs} :
                   /\ res.status = sb.status
                   /\ sb.status = "bounds" =>
                          /\ res.lower = NpExp(sb.lower)
                          /\ res.upper = NpExp(sb.upper)
                   /\ sb.status = "error" =>
                          /\ res.kind = sb.kind
                          /\ res.subject = sb.subject

\* ratio_bounds has returned bounds below 1: shift_bounds of the logarithms
\* has returned bounds below 0.
C18_RatioBoundsBelowOne ==
    /\ pc = "returned" /\ op = "ratio_bounds" /\ res.status = "bounds"
    /\ RLt(res.upper, RInt(1))
    /\ C18_ShiftBoundsOfLogs.status = "bounds"
    /\ res.upper = NpExp(C18_ShiftBoundsOfLogs.upper)

\* ----------------------------------------------- min_achievable_misrate
\* Sample sizes: -1 to MaxSize, and LargeSize for two samples of one size.
MaxSize == 9
LargeSize == 515

Sizes == (0 - 1)..MaxSize

SizePairs == (Sizes \X Sizes) \cup {<<LargeSize, LargeSize>>}

Call_min_achievable_misrate_one_sample ==
    /\ pc = "idle"
    /\ \E n \in Sizes :
           Done("min_achievable_misrate_one_sample", [n |-> n],
                min_achievable_misrate_one_sample(n))

Call_min_achievable_misrate_two_sample ==
    /\ pc = "idle"
    /\ \E nm \in SizePairs :
           Done("min_achievable_misrate_two_sample", [n |-> nm[1], m |-> nm[2]],
                min_achievable_misrate_two_sample(nm[1], nm[2]))

NextMisrate ==
    \/ Call_min_achievable_misrate_one_sample
    \/ Call_min_achievable_misrate_two_sample
    \/ Return

SpecMisrate == Init /\ [][NextMisrate]_vars

\* C19: min_achievable_misrate_one_sample(n) returns 2^(1-n) for n >= 1 and
\* raises domain(x) for n <= 0; min_achievable_misrate_two_sample(n, m)
\* returns 2/C(n+m, n) for n, m >= 1, raises domain(x) for n <= 0 and
\* otherwise domain(y) for m <= 0.
C19_MinMisrateReturnedOrDomain ==
    /\ (pc = "returned" /\ op = "min_achievable_misrate_one_sample") =>
           IF args.n <= 0 THEN res = Raise("domain", "x")
           ELSE /\ res.status = "value"
                /\ res.value = RDiv(RInt(1), RInt(2 ^ (args.n - 1)))
    /\ (pc = "returned" /\ op = "min_achievable_misrate_two_sample") =>
           IF args.n <= 0 THEN res = Raise("domain", "x")
           ELSE IF args.m <= 0 THEN res = Raise("domain", "y")
           ELSE /\ res.status = "value"
                /\ res.value = RDiv(RInt(2), RInt(Comb(args.n + args.m, args.n)))

\* What holds of min_achievable_misrate_two_sample: the claim for the sizes
\* whose binomial coefficient a float can hold, OverflowError for the others.
C19_MinMisrateUnlessOverflow ==
    (/\ pc = "returned" /\ op = "min_achievable_misrate_two_sample"
     /\ args.n >= 1 /\ args.m >= 1) =>
        IF args.n + args.m <= MaxSize + MaxSize
        THEN res = Value(RDiv(RInt(2), RInt(Comb(args.n + args.m, args.n))), NoCalls)
        ELSE res = Crash("OverflowError")

\* ------------------------------------------------- disparity, x against y
\* The samples of finite values from 0 to RatioMax, of up to PairLen values,
\* in ascending order.
SpreadSamples == SortedSeqs(0..RatioMax, 0, PairLen)

\* disparity(x, y) on samples of sizes that can differ.
Call_disparity_sized ==
    /\ pc = "idle"
    /\ \E xs \in SpreadSamples, ys \in SpreadSamples :
           Done("disparity", [x |-> xs, y |-> ys], disparity(xs, ys))

NextDisparity == Call_disparity_sized \/ Return

SpecDisparity == Init /\ [][NextDisparity]_vars

\* disparity(x, y) has ended on valid samples x and y of positive spread.
C20_Case ==
    /\ pc = "returned" /\ op = "disparity"
    /\ ~ Invalid(args.x) /\ ~ Invalid(args.y)
    /\ RLt(Rat0, fast_spread(Nums(args.x))) /\ RLt(Rat0, fast_spread(Nums(args.y)))

\* C20: for valid samples of positive spread disparity(x, y) is
\* -disparity(y, x): the size-weighted average of the two spreads is the same
\* for (x, y) and (y, x), and the shift changes its sign.
C20_DisparityAntisymmetric ==
    C20_Case =>
        \E back \in {disparity(args.y, args.x)} :
            /\ res.status = "value" /\ back.status = "value"
            /\ res.value = RSub(Rat0, back.value)
            /\ avg_spread(args.x, args.y).value = avg_spread(args.y, args.x).value
            /\ avg_spread(args.x, args.y).value =
                   RDiv(RAdd(RMul(RInt(Len(args.x)), fast_spread(Nums(args.x))),
                             RMul(RInt(Len(args.y)), fast_spread(Nums(args.y)))),
                        RInt(Len(args.x) + Len(args.y)))
            /\ shift(args.x, args.y).value = RSub(Rat0, shift(args.y, args.x).value)
            /\ res.value = RDiv(shift(args.x, args.y).value,
                                avg_spread(args.x, args.y).value)

\* disparity has returned a value other than 0 on two samples of different
\* sizes and different spreads.
C20_UnequalSamplesCompared ==
    /\ C20_Case /\ res.status = "value" /\ res.value # Rat0
    /\ Len(args.x) # Len(args.y)
    /\ fast_spread(Nums(args.x)) # fast_spread(Nums(args.y))

\* ------------------------------------------- _count_pairs_less_or_equal
\* Floats at the end of the range where every whole number is a float: the
\* even numbers just below 2^(MantBits+1), and small numbers around 0.
HighFloats == {2 ^ (MantBits + 1) - 2 * k : k \in 1..2}

CountValues == {0 - 1, 0, 1} \cup HighFloats

\* The sorted lists of up to PairLen of these values.
CountLists ==
    {s \in UNION {[1..j -> CountValues] : j \in 0..PairLen} :
        \A i \in 1..(Len(s) - 1) : s[i] <= s[i + 1]}

\* Thresholds: 0, 1/2 and the whole numbers just below 2^MantBits.
CountThresholds == {Rat0, Rat(1, 2)} \cup {RInt(2 ^ MantBits - k) : k \in 1..3}

Call_count_pairs_less_or_equal ==
    /\ pc = "idle"
    /\ \E sv \in CountLists, t \in CountThresholds :
           Done("count_pairs_less_or_equal", [sorted_vals |-> sv, threshold |-> t],
                Value(count_pairs_less_or_equal(sv, t), NoCalls))

NextCount == Call_count_pairs_less_or_equal \/ Return

SpecCount == Init /\ [][NextCount]_vars

\* The pairs (i, j), i <= j, of a list sv that P holds of.
PairsWith(sv, P(_, _)) == {p \in (DOMAIN sv) \X (DOMAIN sv) : p[1] <= p[2] /\ P(sv[p[1]], sv[p[2]])}

\* C21: _count_pairs_less_or_equal returns the number of pairs (i, j),
\* i <= j, with (x[i] + x[j])/2 <= t.
C21_CountsPairsWithAverageAtMost ==
    (pc = "returned" /\ op = "count_pairs_less_or_equal") =>
        LET AverageAtMost(a, b) == RLe(Rat(a + b, 2), args.threshold)
        IN  res.value = Cardinality(PairsWith(args.sorted_vals, AverageAtMost))

\* The same with the average worked out in floats: (x[i] + x[j]) rounds,
\* its half is exact.
C21_CountsPairsWithFloatAverageAtMost ==
    (pc = "returned" /\ op = "count_pairs_less_or_equal") =>
        LET AverageAtMost(a, b) ==
                RLe(RMul(FloatRound(RInt(a + b)), Rat(1, 2)), args.threshold)
        IN  res.value = Cardinality(PairsWith(args.sorted_vals, AverageAtMost))

\* What the scan counts, with j never reset: the pairs (i, j), i <= j, with
\* x[j] <= target(i), the float that 2 * threshold - x[i] rounds to.
C21_CountsPairsAtMostRoundedTarget ==
    (pc = "returned" /\ op = "count_pairs_less_or_equal") =>
        LET AtMostTarget(a, b) ==
                RLe(RInt(b), FloatRound(RSub(RMul(RInt(2), args.threshold), RInt(a))))
        IN  res.value = Cardinality(PairsWith(args.sorted_vals, AtMostTarget))

\* ------------------------------------------------- _find_exact_quantile
\* The sorted samples of 1 to PairLen whole numbers from -QuantileMax to 1.
QuantileMax == 3

QuantileLists ==
    {s \in UNION {[1..j -> (0 - QuantileMax)..1] : j \in 1..PairLen} :
        \A i \in 1..(Len(s) - 1) : s[i] <= s[i + 1]}

Call_find_exact_quantile ==
    /\ pc = "idle"
    /\ \E sv \in QuantileLists :
           \E k \in 1..((Len(sv) * (Len(sv) + 1)) \div 2) :
               Done("find_exact_quantile", [sorted_vals |-> sv, k |-> k],
                    Value(find_exact_quantile(sv, k), NoCalls))

NextQuantile == Call_find_exact_quantile \/ Return

SpecQuantile == Init /\ [][NextQuantile]_vars

\* The pairs (i, j), i <= j, of sv whose average is below v (strict), or at
\* most v.
AveragesWithin(sv, v, strict) ==
    {p \in (DOMAIN sv) \X (DOMAIN sv) :
        /\ p[1] <= p[2]
        /\ IF strict THEN RLt(Rat(sv[p[1]] + sv[p[2]], 2), v)
           ELSE RLe(Rat(sv[p[1]] + sv[p[2]], 2), v)}

\* C22: _find_exact_quantile returns the k-th smallest pairwise average: an
\* element v of the averages (x[i] + x[j])/2, i <= j, with
\* count(< v) < k <= count(<= v).
C22_ReturnsKthSmallestAverage ==
    (pc = "returned" /\ op = "find_exact_quantile") =>
        /\ \E i \in DOMAIN args.sorted_vals, j \in DOMAIN args.sorted_vals :
               i <= j /\ res.value = Rat(args.sorted_vals[i] + args.sorted_vals[j], 2)
        /\ Cardinality(AveragesWithin(args.sorted_vals, res.value, TRUE)) < args.k
        /\ args.k <= Cardinality(AveragesWithin(args.sorted_vals, res.value, FALSE))

\* What holds: the value returned is between the least and the greatest
\* value of the sample, and it is the k-th smallest average when k is 1 or
\* the number of pairs.
C22_ReturnsWithinTheSample ==
    (pc = "returned" /\ op = "find_exact_quantile") =>
        \E sv \in {args.sorted_vals} :
            /\ RLe(RInt(sv[1]), res.value) /\ RLe(res.value, RInt(sv[Len(sv)]))
            /\ args.k = 1 => res.value = RInt(sv[1])
            /\ args.k = (Len(sv) * (Len(sv) + 1)) \div 2 => res.value = RInt(sv[Len(sv)])

\* --------------------------------- _signed_rank_margin_exact_raw, its table
\* n up to TableN, p a multiple of 1/2^(MisBits + 2) of [0, 1].
TableN == 6

TableTargets == {Rat(k, 4 * MisDen) : k \in 0..(4 * MisDen)}

\* _signed_rank_margin_exact_raw(n, p), with the table count as the loops of
\* lines 59-62 leave it.
Call_signed_rank_margin_exact_raw ==
    /\ pc = "idle"
    /\ \E n \in 1..TableN, p \in TableTargets :
           Done("signed_rank_margin_exact_raw", [n |-> n, p |-> p],
                [status |-> "value", value |-> signed_rank_margin_exact_raw(n, p),
                 count |-> SignedRankCounts(n), calls |-> NoCalls])

NextTable == Call_signed_rank_margin_exact_raw \/ Return

SpecTable == Init /\ [][NextTable]_vars

\* The subsets of {1..n} whose elements sum to w.
SubsetsOfSum(n, w) == {S \in SUBSET (1..n) : SetSum(S) = w}

\* C23: after the loops count[w] is the number of subsets of {1..n} that sum
\* to w, for every w of 0..n(n+1)/2, and the counts add up to 2^n.
C23_CountIsSubsetsOfSum ==
    (pc = "returned" /\ op = "signed_rank_margin_exact_raw") =>
        \E max_w \in {(args.n * (args.n + 1)) \div 2} :
            /\ DOMAIN res.count = 0..max_w
            /\ \A w \in 0..max_w : res.count[w] = Cardinality(SubsetsOfSum(args.n, w))
            /\ Cumulative(res.count, max_w) = 2 ^ args.n

\* The loops have run for an n with several subsets of one sum: 1+2+3 = 2+4
\* = 6 and 1+5 = 2+4 among them.
C23_SeveralSubsetsOfOneSum ==
    /\ pc = "returned" /\ op = "signed_rank_margin_exact_raw"
    /\ args.n >= 5
    /\ res.count[6] >= 3

\* ------------------------------------------- the ranks the bounds select
\* A call that got as far as its ranks: what it returned, with the margin it
\* was given and the ranks it made of it.
Ranked(call, total, margin, ranks) ==
    [status |-> "ranks", call |-> call, total |-> total, margin |-> margin,
     k_left |-> ranks.k_left, k_right |-> ranks.k_right]

\* shift_bounds(x, y, misrate) with its ranks: they are computed when the
\* call gets past its checks with more than one pairwise difference.
Call_shift_bounds_ranks ==
    /\ pc = "idle"
    /\ \E xs \in PairSamples, ys \in PairSamples, mr \in Misrates :
           LET call == shift_bounds(xs, ys, mr)
               total == Len(xs) * Len(ys)
               margin == pairwise_margin(Len(xs), Len(ys), mr)
           IN  Done("shift_bounds_ranks", [x |-> xs, y |-> ys, misrate |-> mr],
                    IF call.status = "bounds" /\ total # 1
                    THEN Ranked(call, total, margin.value, ShiftRanks(total, margin.value))
                    ELSE call)

\* center_bounds(x, misrate) with its ranks.
Call_center_bounds_ranks ==
    /\ pc = "idle"
    /\ \E xs \in PairSamples, mr \in Misrates :
           LET call == center_bounds(xs, mr)
               total_pairs == (Len(xs) * (Len(xs) + 1)) \div 2
               margin == signed_rank_margin(Len(xs), mr, NoEdgeworth)
           IN  Done("center_bounds_ranks", [x |-> xs, misrate |-> mr],
                    IF call.status = "bounds"
                    THEN Ranked(call, total_pairs, margin.value,
                                CenterRanks(total_pairs, margin.value))
                    ELSE call)

\* spread_bounds(x, misrate, seed) on a sample of LongLen - 2 to LongLen
\* values; its result carries the ranks.
Call_spread_bounds_seeded ==
    /\ pc = "idle"
    /\ \E xs \in LongSamples, mr \in Misrates, seed \in Seeds :
           LET a == [x |-> xs, misrate |-> mr, seed |-> seed]
               checks == spread_bounds_checks(xs, mr)
           IN  IF IsError(checks) THEN Done("spread_bounds", a, checks)
               ELSE \E e \in Roundings :
                        Done("spread_bounds", a, spread_bounds(xs, mr, seed, seed, e))

NextRanks ==
    \/ Call_shift_bounds_ranks
    \/ Call_center_bounds_ranks
    \/ Call_spread_bounds_seeded
    \/ Return

SpecRanks == Init /\ [][NextRanks]_vars

\* lo <= k_left <= k_right <= hi and k_left + k_right = lo + hi
RanksWithin(r, lo, hi) ==
    /\ lo <= r.k_left /\ r.k_left <= r.k_right /\ r.k_right <= hi
    /\ r.k_left + r.k_right = lo + hi

\* C24: the ranks made of a non-negative margin are in range, do not cross
\* and are symmetric: 0..n*m - 1 for shift_bounds, 1..n(n+1)/2 for
\* center_bounds, 1..n // 2 for spread_bounds, which reads no index outside
\* its sorted differences.
C24_RanksInRangeAndSymmetric ==
    pc = "returned" =>
        /\ (op = "shift_bounds_ranks" /\ res.status = "ranks" /\ res.margin >= 0) =>
               /\ res.total = Len(args.x) * Len(args.y)
               /\ RanksWithin(res, 0, res.total - 1)
        /\ (op = "center_bounds_ranks" /\ res.status = "ranks" /\ res.margin >= 0) =>
               /\ res.total = (Len(args.x) * (Len(args.x) + 1)) \div 2
               /\ RanksWithin(res, 1, res.total)
        /\ op = "spread_bounds" =>
               /\ res.status # "crash"
               /\ res.status = "bounds" => RanksWithin(res, 1, Len(args.x) \div 2)

\* shift_bounds has been given a margin that the clamp cuts down.
C24_ShiftMarginClamped ==
    /\ pc = "returned" /\ op = "shift_bounds_ranks" /\ res.status = "ranks"
    /\ res.margin \div 2 > (res.total - 1) \div 2
    /\ res.total >= 4

\* ------------------------------------- the loops of the margins, by steps
\* While a loop runs pc is "running" and res holds the locals of the function.
\* n up to StepN.
StepN == 3

\* The values _signed_rank_edgeworth_cdf(n, w) can take, w = 0..max_w, in any
\* order: each below the target 1/2 or not.
StepTarget == Rat(1, 2)

StepTables(max_w) == [0..max_w -> {Rat0, RInt(1)}]

\* The targets of _binom_cdf_split: 0 < target < 1.
BinomTargets == {Rat(k, 2 * MisDen) : k \in 1..(2 * MisDen - 1)}

Running(name, a, locals) ==
    /\ pc' = "running" /\ op' = name /\ args' = a /\ res' = locals
    /\ UNCHANGED <<arrays, samples, registry>>

Continue(locals) ==
    /\ pc' = "running" /\ res' = locals
    /\ UNCHANGED <<op, args, arrays, samples, registry>>

Finish(r) ==
    /\ pc' = "returned" /\ res' = r
    /\ UNCHANGED <<op, args, arrays, samples, registry>>

\* _signed_rank_margin_approx_raw up to its loop: a = 0, b = max_w.
Call_signed_rank_margin_approx_raw ==
    /\ pc = "idle"
    /\ \E n \in 1..StepN :
           \E cdf \in StepTables((n * (n + 1)) \div 2) :
               Running("signed_rank_margin_approx_raw",
                       [n |-> n, max_w |-> (n * (n + 1)) \div 2, cdf |-> cdf,
                        misrate |-> StepTarget],
                       [status |-> "running", a |-> 0, b |-> (n * (n + 1)) \div 2,
                        iterations |-> 0])

\* One iteration of while a < b - 1 (lines 85-91).
Step_approx_search ==
    /\ pc = "running" /\ op = "signed_rank_margin_approx_raw"
    /\ res.a < res.b - 1
    /\ LET c == SearchMid(res.a, res.b)
       IN  IF RLt(args.cdf[c], args.misrate)
           THEN Continue([res EXCEPT !.a = c, !.iterations = @ + 1])
           ELSE Continue([res EXCEPT !.b = c, !.iterations = @ + 1])

\* The loop is left: return b if cdf(b) < misrate else a (line 93).
Exit_approx_search ==
    /\ pc = "running" /\ op = "signed_rank_margin_approx_raw"
    /\ ~ (res.a < res.b - 1)
    /\ Finish([status |-> "value",
               value |-> IF RLt(args.cdf[res.b], args.misrate) THEN res.b ELSE res.a,
               iterations |-> res.iterations, visited |-> <<>>, calls |-> NoCalls])

\* _signed_rank_margin_exact_raw up to its scan: the table is built, w = 0.
Call_exact_raw_by_steps ==
    /\ pc = "idle"
    /\ \E n \in 1..StepN, p \in TableTargets :
           Running("signed_rank_margin_exact_raw",
                   [n |-> n, max_w |-> (n * (n + 1)) \div 2, cdf |-> SignedRankCdf(n),
                    p |-> p],
                   [status |-> "running", w |-> 0, visited |-> <<>>])

\* One iteration of for w in range(max_w + 1), or the end of the range
\* (lines 65-71).
Step_exact_scan ==
    /\ pc = "running" /\ op = "signed_rank_margin_exact_raw"
    /\ IF res.w > args.max_w
       THEN Finish([status |-> "value", value |-> args.max_w, iterations |-> 0,
                    visited |-> res.visited, calls |-> NoCalls])
       ELSE IF RLe(args.p, args.cdf[res.w])
       THEN Finish([status |-> "value", value |-> res.w, iterations |-> 0,
                    visited |-> Append(res.visited, res.w), calls |-> NoCalls])
       ELSE Continue([res EXCEPT !.w = @ + 1, !.visited = Append(@, res.w)])

\* _binom_cdf_split up to its loop (lines 60-66).
Call_binom_cdf_split ==
    /\ pc = "idle"
    /\ \E n \in 1..StepN, target \in BinomTargets, e \in Roundings :
           LET a == [n |-> n, target |-> target, e |-> e]
               pmf == Rat(1, 2 ^ n)
           IN  IF AboveTarget(pmf, target, e)
               THEN Done("binom_cdf_split", a,
                         [status |-> "value", value |-> <<0, pmf, pmf>>, iterations |-> 0,
                          visited |-> <<>>, calls |-> NoCalls])
               ELSE Running("binom_cdf_split", a,
                            [status |-> "running", k |-> 1, r_low |-> 0, pmf |-> pmf,
                             cdf |-> pmf, visited |-> <<>>])

\* One iteration of for k in range(1, n + 1), or the end of the range
\* (lines 68-77).
Step_binom_scan ==
    /\ pc = "running" /\ op = "binom_cdf_split"
    /\ IF res.k > args.n
       THEN Finish([status |-> "value", value |-> <<res.r_low, res.cdf, Rat0>>,
                    iterations |-> 0, visited |-> res.visited, calls |-> NoCalls])
       ELSE LET pmf_next == RMul(res.pmf, Rat(args.n - res.k + 1, res.k))
                cdf_next == RAdd(res.cdf, pmf_next)
            IN  IF AboveTarget(cdf_next, args.target, args.e)
                THEN Finish([status |-> "value", value |-> <<res.r_low, res.cdf, pmf_next>>,
                             iterations |-> 0, visited |-> Append(res.visited, res.k),
                             calls |-> NoCalls])
                ELSE Continue([res EXCEPT !.k = @ + 1, !.r_low = res.k, !.pmf = pmf_next,
                                          !.cdf = cdf_next,
                                          !.visited = Append(@, res.k)])

\* The steps of a call that is running.
StepOfCall ==
    \/ Step_approx_search
    \/ Exit_approx_search
    \/ Step_exact_scan
    \/ Step_binom_scan

NextSteps ==
    \/ Call_signed_rank_margin_approx_raw
    \/ Call_exact_raw_by_steps
    \/ Call_binom_cdf_split
    \/ StepOfCall
    \/ Return

\* A call that has started goes on: nothing in the code waits or suspends.
SpecSteps == Init /\ [][NextSteps]_vars /\ WF_vars(StepOfCall)

\* The least k with 2^k >= x: ceil(log2(x)) for x >= 1.
RECURSIVE CeilLog2From(_, _)
CeilLog2From(x, k) == IF 2 ^ k >= x THEN k ELSE CeilLog2From(x, k + 1)

CeilLog2(x) == CeilLog2From(x, 0)

StrictlyIncreasing(s) == \A i \in 1..(Len(s) - 1) : s[i] < s[i + 1]

\* What holds of the locals of the loops at every moment.
LoopLocalsInRange ==
    /\ (op = "signed_rank_margin_approx_raw" /\ pc = "running") =>
           /\ 0 <= res.a /\ res.a <= res.b /\ res.b <= args.max_w
           /\ res.iterations <= CeilLog2(args.max_w)
    /\ (op = "signed_rank_margin_approx_raw" /\ pc = "returned") =>
           res.iterations <= CeilLog2(args.max_w)
    /\ (op = "signed_rank_margin_exact_raw" /\ pc \in {"running", "returned"}) =>
           /\ StrictlyIncreasing(res.visited)
           /\ \A i \in DOMAIN res.visited : res.visited[i] \in 0..args.max_w
    /\ (op = "binom_cdf_split" /\ pc \in {"running", "returned"}) =>
           /\ StrictlyIncreasing(res.visited)
           /\ \A i \in DOMAIN res.visited : res.visited[i] \in 1..args.n

\* An iteration of the binary search makes b - a smaller.
SearchShrinks ==
    (pc = "running" /\ op = "signed_rank_margin_approx_raw" /\ pc' = "running") =>
        res'.b - res'.a < res.b - res.a

\* C25: every call terminates: the binary search shrinks b - a on each
\* iteration, keeps 0 <= a <= b <= n(n+1)/2 and makes at most
\* ceil(log2(n(n+1)/2)) iterations; the scans visit each index at most once.
C25_EveryCallTerminates ==
    /\ (pc = "running") ~> (pc = "returned")
    /\ [][SearchShrinks]_vars
    /\ []LoopLocalsInRange

\* The binary search has used all of its ceil(log2(6)) = 3 iterations.
C25_SearchUsedAllIterations ==
    /\ pc = "returned" /\ op = "signed_rank_margin_approx_raw"
    /\ args.max_w >= 6
    /\ res.iterations = CeilLog2(args.max_w)

\* The loops by steps return what the loops taken whole return.
StepsAgreeWithLoops ==
    pc = "returned" =>
        /\ op = "signed_rank_margin_approx_raw" =>
               res.value = signed_rank_margin_approx_raw(args.cdf, args.max_w, args.misrate)
        /\ op = "signed_rank_margin_exact_raw" =>
               res.value = signed_rank_margin_exact_raw(args.n, args.p)
        /\ op = "binom_cdf_split" =>
               res.value = binom_cdf_split(args.n, args.target, args.e)

\* ------------------------------------------------------------ UnitRegistry
RATIO_UNIT == MeasurementUnit("ratio", "Ratio", 1)

DISPARITY_UNIT == MeasurementUnit("disparity", "Disparity", 1)

\* The units a caller registers: the three standard ones, the caller's own,
\* and for each of them the units of the same id with other base_units, up to
\* UnitVariants units of one id.
UnitVariants == 2

RegistryUnits ==
    {MeasurementUnit(u.id, u.family, u.base_units + k) :
        u \in {NUMBER_UNIT, RATIO_UNIT, DISPARITY_UNIT, UnitFine},
        k \in 0..(UnitVariants - 1)}

\* The ids a caller resolves: those of the units, and one no unit has.
RegistryIds == {u.id : u \in RegistryUnits} \cup {"unknown"}

\* register that puts the unit under its id whatever is there.
UnitRegistry_register_overwriting(by_id, unit) ==
    [by_id |-> [id \in DOMAIN by_id \cup {unit.id} |->
                   IF id = unit.id THEN unit ELSE by_id[id]],
     res |-> Value("None", NoCalls)]

\* UnitRegistry.register: the _by_id it leaves, and what it returns or raises.
UnitRegistry_register(by_id, unit) ==
    IF unit.id \in DOMAIN by_id
    THEN [by_id |-> by_id, res |-> Crash("ValueError")]
    ELSE [by_id |-> [id \in DOMAIN by_id \cup {unit.id} |->
                        IF id = unit.id THEN unit ELSE by_id[id]],
          res |-> Value("None", NoCalls)]

\* UnitRegistry.resolve
UnitRegistry_resolve(by_id, unit_id) ==
    IF unit_id \in DOMAIN by_id THEN Value(by_id[unit_id], NoCalls)
    ELSE Crash("KeyError")

\* UnitRegistry.standard: a new registry, and three calls of register on it.
UnitRegistry_standard ==
    UnitRegistry_register(
        UnitRegistry_register(
            UnitRegistry_register(NoUnits, NUMBER_UNIT).by_id,
            RATIO_UNIT).by_id,
        DISPARITY_UNIT)

\* A call on the registry.
DoneRegistry(name, a, r, by_id) ==
    /\ pc' = "returned" /\ op' = name /\ args' = a /\ res' = r
    /\ registry' = by_id
    /\ UNCHANGED <<arrays, samples>>

\* UnitRegistry(): the caller holds a new, empty registry.
Call_UnitRegistry ==
    /\ pc = "idle"
    /\ DoneRegistry("UnitRegistry", NoArgs, Value("registry", NoCalls), NoUnits)

\* UnitRegistry.standard(): the caller holds the registry it returns.
Call_standard ==
    /\ pc = "idle"
    /\ DoneRegistry("standard", NoArgs, Value("registry", NoCalls),
                    UnitRegistry_standard.by_id)

Call_register ==
    /\ pc = "idle"
    /\ \E unit \in RegistryUnits :
           LET out == UnitRegistry_register(registry, unit)
           IN  DoneRegistry("register", [unit |-> unit], out.res, out.by_id)

Call_resolve ==
    /\ pc = "idle"
    /\ \E unit_id \in RegistryIds :
           DoneRegistry("resolve", [unit_id |-> unit_id],
                        UnitRegistry_resolve(registry, unit_id), registry)

NextRegistry ==
    \/ Call_UnitRegistry
    \/ Call_standard
    \/ Call_register
    \/ Call_resolve
    \/ Return

SpecRegistry == Init /\ [][NextRegistry]_vars

\* Every id of r is an id of s, with the same unit.
KeepsUnits(r, s) == \A id \in DOMAIN r : id \in DOMAIN s /\ s[id] = r[id]

\* What a step does to the registry.
RegistryStep ==
    /\ (pc' = "returned" /\ op' = "register") =>
           IF args'.unit.id \in DOMAIN registry
           THEN /\ res'.status = "crash" /\ res'.kind = "ValueError"
                /\ registry' = registry
           ELSE /\ res'.status = "value"
                /\ DOMAIN registry' = DOMAIN registry \cup {args'.unit.id}
                /\ registry'[args'.unit.id] = args'.unit
                /\ KeepsUnits(registry, registry')
    /\ (pc' = "returned" /\ op' = "resolve") =>
           /\ registry' = registry
           /\ IF args'.unit_id \in DOMAIN registry
              THEN res'.status = "value" /\ res'.value = registry[args'.unit_id]
              ELSE res'.status = "crash" /\ res'.kind = "KeyError"
    /\ (pc' = "returned" /\ op' = "standard") =>
           /\ DOMAIN registry' = {"number", "ratio", "disparity"}
           /\ \A id \in DOMAIN registry' : registry'[id].id = id
    /\ ~ (pc' = "returned" /\ op' \in {"UnitRegistry", "standard"}) =>
           KeepsUnits(registry, registry')

\* C26: on a registry an id keeps the unit first registered under it:
\* register of a registered id raises ValueError and changes nothing,
\* resolve changes nothing, returns the unit of a registered id and raises
\* KeyError for any other; standard() holds the ids number, ratio and
\* disparity and no other.
C26_RegistryKeepsFirstUnit == [][RegistryStep]_vars

\* A unit has been refused because another unit holds its id.
C26_OtherUnitOfTheIdRefused ==
    /\ pc = "returned" /\ op = "register"
    /\ res.status = "crash"
    /\ registry[args.unit.id] # args.unit

\* ------------------------------------------------------------ _prepare_pair
\* A third unit of the family of UnitFine, with the same base_units.
UnitFineToo == MeasurementUnit("fine_too", "Scale", 1)

\* The units the caller makes the two Samples in.
PairUnits == Units \cup {UnitFineToo}

\* The unit of b when the base_units are equal.
finer_second_on_tie(a, b) == IF a.base_units < b.base_units THEN a ELSE b

\* MeasurementUnit.finer
finer(a, b) == IF a.base_units <= b.base_units THEN a ELSE b

\* _convert_to_finer
convert_to_finer(H, a, b) ==
    IF H.samples[a].unit = H.samples[b].unit THEN Outcome(H, Pair(Ref(a), Ref(b)))
    ELSE The({The({IF IsError(oa.res) THEN oa
                   ELSE The({IF IsError(ob.res) THEN ob
                             ELSE Outcome(Heap(ob.arrays, ob.samples), Pair(oa.res, ob.res)) :
                                ob \in {Sample_convert_to(Heap(oa.arrays, oa.samples),
                                                          b, target)}}) :
                      oa \in {Sample_convert_to(H, a, target)}}) :
                 target \in {finer(H.samples[a].unit, H.samples[b].unit)}})

\* _prepare_pair
prepare_pair(H, x, y) ==
    The({The({The({IF IsError(c) THEN Outcome(Heap(oy.arrays, oy.samples), c)
                   ELSE convert_to_finer(Heap(oy.arrays, oy.samples), ox.res.ref, oy.res.ref) :
                      c \in {check_compatible_units(Heap(oy.arrays, oy.samples),
                                                    ox.res.ref, oy.res.ref)}}) :
                 oy \in {Sample_with_subject(Heap(ox.arrays, ox.samples), y, "y")}}) :
            ox \in {Sample_with_subject(H, x, "x")}})

\* A call that leaves the heap of out.
DoneHeap(name, a, out) ==
    /\ pc' = "returned" /\ op' = name /\ args' = a /\ res' = out.res
    /\ arrays' = out.arrays /\ samples' = out.samples
    /\ UNCHANGED registry

\* Sample(values, unit=unit, weights=weights) with any subject, for the first
\* and for the second Sample of the caller.
Call_Sample_in_unit ==
    /\ pc = "idle"
    /\ Len(samples) < 2
    /\ \E values \in ValueLists, unit \in PairUnits, subject \in {"x", "y"} :
           \E weights \in WeightLists(values) :
               DoneHeap("Sample", [values |-> values, weights |-> weights, unit |-> unit],
                        Sample_init(TheHeap, values, weights, unit, subject))

\* _prepare_pair(x, y) on the caller's Samples.
Call_prepare_pair ==
    /\ pc = "idle"
    /\ Len(samples) = 2
    /\ \E x \in DOMAIN samples, y \in DOMAIN samples :
           DoneHeap("_prepare_pair", [x |-> x, y |-> y], prepare_pair(TheHeap, x, y))

NextPair == Call_Sample_in_unit \/ Call_prepare_pair \/ Return

SpecPair == Init /\ [][NextPair]_vars

\* The values of the Sample at r after the step are those of the Sample at i
\* before it, times own.base_units / target.base_units.
ScaledFrom(r, i, target) ==
    LET new == arrays'[samples'[r].values]
        old == arrays[samples[i].values]
    IN  /\ DOMAIN new = DOMAIN old
        /\ \A k \in DOMAIN old :
               new[k].v * target.base_units = old[k].v * samples[i].unit.base_units

\* What a call of _prepare_pair does.
PreparePairStep ==
    (pc' = "returned" /\ op' = "_prepare_pair") =>
        LET ux == samples[args'.x].unit
            uy == samples[args'.y].unit
            target == IF ux.base_units <= uy.base_units THEN ux ELSE uy
        IN  /\ \A i \in DOMAIN samples : samples'[i] = samples[i]
            /\ \A k \in DOMAIN arrays : arrays'[k] = arrays[k]
            /\ IF ux.family # uy.family
               THEN res' = RaiseMessage
               ELSE /\ res'.status = "pair"
                    /\ samples'[res'.first.ref].unit = target
                    /\ samples'[res'.second.ref].unit = target
                    /\ samples'[res'.first.ref].subject = "x"
                    /\ samples'[res'.second.ref].subject = "y"
                    /\ ScaledFrom(res'.first.ref, args'.x, target)
                    /\ ScaledFrom(res'.second.ref, args'.y, target)

\* C27: _prepare_pair raises AssumptionError when the families differ, and
\* otherwise returns two Samples of the unit with the smaller base_units (the
\* unit of x on a tie), of subjects x and y, each with its values times
\* base_units(own unit) / base_units(that unit); the Samples passed in stay
\* as they were.
C27_PreparePairConvertsToFiner == [][PreparePairStep]_vars

\* Two Samples of different units with the same base_units were prepared.
C27_TiePrepared ==
    /\ pc = "returned" /\ op = "_prepare_pair" /\ res.status = "pair"
    /\ samples[args.x].unit # samples[args.y].unit
    /\ samples[args.x].unit.base_units = samples[args.y].unit.base_units

\* The coarser Sample came first and was converted.
C27_CoarseFirstConverted ==
    /\ pc = "returned" /\ op = "_prepare_pair" /\ res.status = "pair"
    /\ samples[args.x].unit = UnitCoarse
    /\ samples[res.first.ref].unit = UnitFine

\* ------------------------------------------------ the draws of spread_bounds
\* The least sample whose least misrate is the least positive float: it has
\* 2 * (TinyBits + 1) values, TinyBits to TinyBits + 2 of them 0 and the
\* others MaxVal.
TinySamples ==
    {[i \in 1..(2 * (TinyBits + 1)) |-> IF i <= k THEN Fin(0) ELSE Fin(MaxVal)] \o <<>> :
        k \in TinyBits..(TinyBits + 2)}

\* The least positive float, twice it, and 1.
TinyMisrates == {MisOf(Rat(k, 2 ^ TinyBits)) : k \in 1..2} \cup {Mis(MisDen)}

\* spread_bounds(x, misrate, seed) on such a sample.
Call_spread_bounds_tiny ==
    /\ pc = "idle"
    /\ \E xs \in TinySamples, mr \in TinyMisrates, seed \in Seeds :
           LET a == [x |-> xs, misrate |-> mr, seed |-> seed]
               checks == spread_bounds_checks(xs, mr)
           IN  IF IsError(checks) THEN Done("spread_bounds", a, checks)
               ELSE \E e \in Roundings :
                        Done("spread_bounds", a, spread_bounds(xs, mr, seed, seed, e))

NextDraws ==
    \/ Call_spread_bounds_seeded
    \/ Call_spread_bounds_tiny
    \/ Return

SpecDraws == Init /\ [][NextDraws]_vars

\* What the call did with random numbers, in order.
RngCalls(calls) == SelectSeq(calls, LAMBDA c : c \in {"Rng", "uniform", "shuffle"})

\* C28: a spread_bounds call that passes validation makes one Rng, takes one
\* uniform draw of it and then shuffles once; a call that raises makes no
\* Rng and draws nothing.
C28_OneDrawBeforeTheShuffle ==
    (pc = "returned" /\ op = "spread_bounds") =>
        IF res.status = "bounds"
        THEN RngCalls(res.calls) = <<"Rng", "uniform", "shuffle">>
        ELSE RngCalls(res.calls) = <<>>

\* The same, but for the calls whose misrate / 2.0 is zero in floats: they
\* shuffle without a draw.
C28_OneDrawUnlessHalfUnderflows ==
    (pc = "returned" /\ op = "spread_bounds") =>
        IF res.status = "bounds"
        THEN RngCalls(res.calls) =
                 IF HalfMis(args.misrate) = Rat0 THEN <<"Rng", "shuffle">>
                 ELSE <<"Rng", "uniform", "shuffle">>
        ELSE RngCalls(res.calls) = <<>>

\* ------------------------------------- the least misrate of disparity_bounds
\* Sizes of 2 to SmallSize, and a sample of 5 values with one of LongSize.
SmallSize == 7
LongSize == 5000

DisparitySizes ==
    ((2..SmallSize) \X (2..SmallSize)) \cup {<<5, LongSize>>, <<LongSize, 5>>}

\* disparity_bounds(x, y, misrate) on valid samples of n and m values, as far
\* as its checks on the misrate and the sizes: it raises there or goes on to
\* the spreads.
Call_disparity_bounds_sizes ==
    /\ pc = "idle"
    /\ \E nm \in DisparitySizes, mr \in Misrates :
           Done("disparity_bounds_sizes", [n |-> nm[1], m |-> nm[2], misrate |-> mr],
                disparity_bounds_size_checks(nm[1], nm[2], mr))

NextSizes == Call_disparity_bounds_sizes \/ Return

SpecSizes == Init /\ [][NextSizes]_vars

\* 0 <= misrate <= 1
MisrateInUnit(mr) == mr.t = "fin" /\ RLe(Rat0, mr.v) /\ RLe(mr.v, RInt(1))

\* C29: with both samples of 2 values or more and one of fewer than 6,
\* disparity_bounds raises domain(misrate) for every misrate of [0, 1]; with
\* 6 values or more in both, the misrate 1 is accepted.
C29_SmallSampleRejectsEveryMisrate ==
    (pc = "returned" /\ op = "disparity_bounds_sizes" /\ MisrateInUnit(args.misrate)) =>
        /\ (args.n < 6 \/ args.m < 6) => res = Raise("domain", "misrate")
        /\ (args.n >= 6 /\ args.m >= 6 /\ args.misrate.v = RInt(1)) => res = Passed

\* The same, but for the sizes at which min_shift + min_avg is min_avg in
\* floats: there the misrate 1 passes whenever min_avg is 1.
C29_RejectsUnlessSumAbsorbed ==
    (pc = "returned" /\ op = "disparity_bounds_sizes" /\ MisrateInUnit(args.misrate)) =>
        /\ ((args.n < 6 \/ args.m < 6) /\ ~ SumAbsorbed(args.n, args.m)) =>
               res = Raise("domain", "misrate")
        /\ ((args.n < 6 \/ args.m < 6) /\ SumAbsorbed(args.n, args.m)) =>
               (res = Passed) = (args.misrate.v = RInt(1) /\ Min2(args.n, args.m) >= 4)
        /\ (args.n >= 6 /\ args.m >= 6 /\ args.misrate.v = RInt(1)) => res = Passed

\* ------------------------------------ center_bounds at the least misrate
\* Valid samples of 2 to EdgeLen values of 0..EdgeVal, in any order.
EdgeLen == 4
EdgeVal == 2

EdgeSamples == UNION {[1..n -> {Fin(v) : v \in 0..EdgeVal}] : n \in 2..EdgeLen}

\* center_bounds(x, 2.0 ** (1 - len(x)))
Call_center_bounds_least_misrate ==
    /\ pc = "idle"
    /\ \E xs \in EdgeSamples :
           \E mr \in {MisOf(Rat(2, 2 ^ Len(xs)))} :
               Done("center_bounds", [x |-> xs, misrate |-> mr], center_bounds(xs, mr))

NextEdge == Call_center_bounds_least_misrate \/ Return

SpecEdge == Init /\ [][NextEdge]_vars

\* The least and the greatest value of a sample.
SampleMin(xs) == CHOOSE v \in {xs[i].v : i \in DOMAIN xs} : \A i \in DOMAIN xs : v <= xs[i].v

SampleMax(xs) == CHOOSE v \in {xs[i].v : i \in DOMAIN xs} : \A i \in DOMAIN xs : xs[i].v <= v

\* C30: on a valid sample of n >= 2 values center_bounds with the misrate
\* 2^(1-n) returns (min(x), max(x)): the signed-rank margin is 0.
C30_LeastMisrateGivesTheRange ==
    (pc = "returned" /\ op = "center_bounds"
        /\ args.misrate.v = Rat(2, 2 ^ Len(args.x))) =>
        /\ signed_rank_margin(Len(args.x), args.misrate, NoEdgeworth) = Value(0, NoCalls)
        /\ res.status = "bounds"
        /\ res.lower = RInt(SampleMin(args.x))
        /\ res.upper = RInt(SampleMax(args.x))

\* The range of a sample that is not in order was returned.
C30_RangeOfUnorderedSample ==
    /\ pc = "returned" /\ op = "center_bounds" /\ res.status = "bounds"
    /\ Len(args.x) = 3
    /\ args.x[2].v < args.x[3].v /\ args.x[3].v < args.x[1].v
    /\ res.lower = RInt(args.x[2].v) /\ res.upper = RInt(args.x[1].v)

====
